---------------------------- MODULE Spec2Model ----------------------------
(***************************************************************************)
(* AI Guard: a multi-tenant reverse proxy in front of OpenAI, Anthropic    *)
(* and Gemini.  The module models the request pipeline of                  *)
(* src/server/index.ts (authentication, interceptors, ProxyHandler), the   *)
(* credential resolver, the provider registry and the personal access      *)
(* token (PAT) store, and states the properties of spec.md against them.   *)
(*                                                                         *)
(* Strings of the program are TLA+ strings; a URL or a request path is a   *)
(* sequence of lexical tokens ("/", "\\", a host or segment name) so that  *)
(* URL resolution is computed, not assumed.                                *)
(***************************************************************************)
EXTENDS Integers, Sequences, FiniteSets, TLC

VARIABLES
  now,          \* wall clock, Date.now(), in abstract ticks
  users,        \* collection `users`: user id -> document
  tokens,       \* collection `personalaccesstokens`: sequence of documents
  projects,     \* collection `projects`: project id -> document
  masterKey,    \* process.env.ENCRYPTION_KEY
  envKeys,      \* providers with a process-default credential in the environment
  inMemoryStore,\* RateLimiter.inMemoryStore: key -> {count, resetAt}
  pc,           \* position of the in-flight request in the middleware chain
  req,          \* the inbound request (ctx.headers, ctx.path, body, ...)
  ctx,          \* the Koa context: state.auth, status, body.error.type, headers set
  upstream,     \* upstream calls made for the in-flight request
  usageRecords, \* collection `usagerecords` (number of documents saved)
  issued,       \* raw token strings handed to callers: token index -> string
  everRevoked,  \* history: token indexes that have been revoked at some time
  lastAuth,     \* result of the last validatePersonalAccessToken call
  redis,        \* RateLimiter.redis (connected or null) and the sorted sets it holds
  rateLog,      \* history: the verdicts of RateLimiter.checkLimit, oldest first
  auditLogs,    \* collection `auditlogs`
  stream,       \* the upstream response stream piped to the caller, if any
  outcome,      \* history: how the upstream call of the request in flight ended
  response,     \* body of the answer of the management API call just made
  deletion,     \* the deleteAccount call in flight: its position and the tokens it read
  adminSecretKey, \* process.env.ADMIN_SECRET_KEY, NONE when not configured
  usageOps,     \* history: the usage commands the store has applied, oldest first
  pipelines,    \* the checkLimitRedis calls of the proxy processes: position and count read
  creating,     \* createToken calls that passed the name check and have not yet inserted
  logins        \* the validateFirebaseToken calls of the processes: position, uid, user read, result

vars == <<now, users, tokens, projects, masterKey, envKeys, inMemoryStore,
          pc, req, ctx, upstream, usageRecords, issued, everRevoked, lastAuth,
          redis, rateLog, auditLogs, stream, outcome, response, deletion,
          adminSecretKey, usageOps, pipelines, creating>>

-----------------------------------------------------------------------------
(* Bounds of the model *)

MaxKeys == 2            \* embedded credentials in the request's project
MaxDefaultKeys == 1     \* embedded credentials in the caller's default project
MaxHeaders == 2         \* caller-supplied headers besides the provider header
MaxTokens == 2          \* PAT documents ever created
MaxTime == 3            \* clock ticks explored
MaxRateRequests == 12   \* requests one caller sends to the rate limiter
MaxRateTicks == 3       \* half rate-limit windows the clock advances
MaxBackendFailures == 1 \* failed Redis pipelines
MaxQuotaRequests == 2   \* requests sent against a project quota
MaxUsageOps == 4        \* usage commands applied to the store
MaxProcesses == 3       \* proxy processes that share the rate-limit backend

NONE == "none"          \* an absent optional string (undefined / null)

-----------------------------------------------------------------------------
(* String helpers *)

\* String.prototype.toLowerCase over the strings the model uses
ToLowerCase(s) ==
  CASE s = "Authorization"       -> "authorization"
    [] s = "AUTHORIZATION"       -> "authorization"
    [] s = "Host"                -> "host"
    [] s = "X-AI-Guard-Provider" -> "x-ai-guard-provider"
    [] s = "User-Agent"          -> "user-agent"
    [] s = "Cache-Control"       -> "cache-control"
    [] s = "X-API-Key"           -> "x-api-key"
    [] s = "X-Goog-Api-Key"      -> "x-goog-api-key"
    [] s = "OpenAI"              -> "openai"
    [] s = "GEMINI"              -> "gemini"
    [] s = "POST"                -> "post"
    [] s = "GET"                 -> "get"
    [] OTHER                     -> s

-----------------------------------------------------------------------------
(* Provider registry *)

ProviderNames == {"openai", "anthropic", "gemini"}

\* src/proxy/provider-config.ts: providerConfigs.  host is the origin as a
\* token sequence: scheme, "/", "/", host name.
providerConfigs ==
  [n \in ProviderNames \cup {"web-ui"} |->
     CASE n = "openai" ->
            [name |-> "openai", host |-> <<"https:", "/", "/", "api.openai.com">>,
             authHeader |-> "Authorization", authPrefix |-> "Bearer",
             constantHeaders |-> {}]
       [] n = "anthropic" ->
            [name |-> "anthropic", host |-> <<"https:", "/", "/", "api.anthropic.com">>,
             authHeader |-> "x-api-key", authPrefix |-> NONE,
             constantHeaders |-> {<<"anthropic-version", "2023-06-01">>}]
       [] n = "gemini" ->
            [name |-> "gemini",
             host |-> <<"https:", "/", "/", "generativelanguage.googleapis.com">>,
             authHeader |-> "x-goog-api-key", authPrefix |-> NONE,
             constantHeaders |-> {}]
       [] OTHER ->
            [name |-> "web-ui", host |-> <<"https:", "/", "/", "web-ui.com">>,
             authHeader |-> "authorization", authPrefix |-> NONE,
             constantHeaders |-> {}]]

\* getProviderConfig: the set holding the entry of the lowercased tag, or {}
getProviderConfig(providerName) ==
  IF ToLowerCase(providerName) \in DOMAIN providerConfigs
    THEN {providerConfigs[ToLowerCase(providerName)]}
    ELSE {}

\* getSupportedProviders: Object.keys(providerConfigs)
getSupportedProviders == DOMAIN providerConfigs

-----------------------------------------------------------------------------
(* URL parsing (WHATWG URL, as `new URL(input, base)` of Node does it)     *)

IsSlash(t) == t \in {"/", "\\"}
IsScheme(t) == t \in {"https:", "http:"}

\* index of the first token at or after i that is not a slash (Len+1 if none)
RECURSIVE SkipSlashes(_, _)
SkipSlashes(s, i) ==
  IF i > Len(s) THEN i
  ELSE IF IsSlash(s[i]) THEN SkipSlashes(s, i + 1) ELSE i

\* authority of a special-scheme URL whose slashes start at token i:
\* "special authority ignore slashes state" then "host state"; an empty
\* host is a failure
ParseAuthority(s, i) ==
  LET j == SkipSlashes(s, i) IN
    IF j > Len(s) THEN [ok |-> FALSE, host |-> NONE, path |-> <<>>]
    ELSE [ok |-> TRUE, host |-> s[j], path |-> SubSeq(s, j + 1, Len(s))]

\* new URL(input) for an absolute input such as providerConfig.host
ParseAbsoluteURL(s) ==
  IF Len(s) >= 1 /\ IsScheme(s[1]) THEN ParseAuthority(s, 2)
  ELSE [ok |-> FALSE, host |-> NONE, path |-> <<>>]

\* new URL(input, base).  An input with a scheme is absolute; an input that
\* opens with two slashes (a backslash counts as a slash for https) carries
\* its own authority ("relative slash state"); any other input keeps the
\* host of the base.
ParseURL(input, base) ==
  LET b == ParseAbsoluteURL(base) IN
    IF ~b.ok THEN b
    ELSE IF Len(input) >= 1 /\ IsScheme(input[1]) THEN ParseAbsoluteURL(input)
    ELSE IF Len(input) >= 2 /\ IsSlash(input[1]) /\ IsSlash(input[2])
      THEN ParseAuthority(input, 3)
    ELSE [ok |-> TRUE, host |-> b.host, path |-> input]

-----------------------------------------------------------------------------
(* Crypto vault and stored credentials *)

\* values of ENCRYPTION_KEY: k1 and k2 are 32 ASCII bytes long, pw1 is
\* shorter, k1+tail is k1 followed by more ASCII bytes
MasterKeys == {"k1", "k2"}
ShortKeys == {"pw1"}
LongKey == "k1+tail"
KeyLetters == <<"a", "b", "c", "d">>

\* EncryptionService.getMasterKey: the 32-byte AES key made from the
\* configured string.  A short string goes through PBKDF2, a longer one is
\* cut to its first 32 bytes
getMasterKey(env) ==
  CASE env \in ShortKeys -> "pbkdf2(" \o env \o ")"
    [] env = LongKey -> "k1"
    [] env = "utf8(pbkdf2(pw1))" -> "first32(utf8(pbkdf2(pw1)))"
    [] OTHER -> env

\* Buffer.prototype.toString('utf8') of a 32-byte key.  ASCII bytes come
\* back as they are; the bytes PBKDF2 derives are not valid UTF-8, each
\* invalid byte decodes to U+FFFD, so the text has other (and more) bytes
\* than the buffer.  Cutting that text to 32 bytes and decoding it again is
\* taken to give the same text
BufferToString(buf) ==
  CASE buf = "pbkdf2(pw1)" -> "utf8(pbkdf2(pw1))"
    [] buf = "first32(utf8(pbkdf2(pw1)))" -> "utf8(pbkdf2(pw1))"
    [] OTHER -> buf

\* the provider key that was sealed into entry i of project pid
PlainOf(pid, i) == "sk-" \o pid \o "-" \o KeyLetters[i]
KeyIdOf(pid, i) == "kid-" \o pid \o "-" \o KeyLetters[i]

\* EncryptionService.encryptApiKey: the envelope seals {key, keyId} under the
\* master key of the moment
encryptApiKey(apiKey, keyId, mk) ==
  [key |-> apiKey, keyId |-> keyId, sealedUnder |-> getMasterKey(mk)]

\* EncryptionService.decrypt / KeyManager.decryptApiKey: AES-GCM opens the
\* envelope only under the master key that sealed it; otherwise it throws
decryptApiKey(encryptedKey, mk) ==
  IF encryptedKey.sealedUnder = getMasterKey(mk)
    THEN [ok |-> TRUE, key |-> encryptedKey.key]
    ELSE [ok |-> FALSE, key |-> NONE]

\* EncryptionService.rotateEncryption: the new envelope, or a failure, and
\* the value it leaves in process.env.ENCRYPTION_KEY (the finally block
\* writes back the text of the derived key, not the configured string)
rotateEncryption(encryptedData, env, oldKey, newKey) ==
  LET originalKey == getMasterKey(env) IN
    IF encryptedData.sealedUnder = getMasterKey(oldKey)
      THEN [ok |-> TRUE,
            data |-> [encryptedData EXCEPT !.sealedUnder = getMasterKey(newKey)],
            env |-> BufferToString(originalKey)]
      ELSE [ok |-> FALSE, data |-> encryptedData, env |-> BufferToString(originalKey)]

\* value of process.env.<PROVIDER>_API_KEY
EnvKeyOf(provider) == "sk-env-" \o provider

-----------------------------------------------------------------------------
(* Credential resolver: src/proxy/api-key-resolver.ts *)

NoKey == [found |-> FALSE, apiKey |-> NONE, source |-> NONE, keyId |-> NONE]

\* indexes of the entries project.apiKeys.find() would accept
ActiveMatches(apiKeys, provider) ==
  {i \in 1..Len(apiKeys) : apiKeys[i].provider = provider /\ apiKeys[i].isActive}

Min(S) == CHOOSE x \in S : \A y \in S : x <= y

\* ApiKeyResolver.getProjectApiKey
getProjectApiKey(project, provider, mk) ==
  LET m == ActiveMatches(project.apiKeys, provider) IN
    IF m = {} THEN NoKey
    ELSE LET apiKeyEntry == project.apiKeys[Min(m)]
             dec == decryptApiKey(apiKeyEntry.encryptedKey, mk)
         IN IF dec.ok
              THEN [found |-> TRUE, apiKey |-> dec.key, source |-> "project",
                    keyId |-> apiKeyEntry.keyId]
              ELSE NoKey

\* ApiKeyResolver.getSystemApiKey
getSystemApiKey(provider, env) ==
  IF ToLowerCase(provider) \in ProviderNames /\ ToLowerCase(provider) \in env
    THEN [found |-> TRUE, apiKey |-> EnvKeyOf(ToLowerCase(provider)),
          source |-> "system", keyId |-> NONE]
    ELSE NoKey

\* ApiKeyResolver.resolveApiKey.  auth is ctx.state.auth; projs the projects
\* collection (findById of a missing id gives null)
resolveApiKey(auth, provider, projs, mk, env) ==
  LET projectKey ==
        IF auth.project # NONE
          THEN getProjectApiKey(projs[auth.project], provider, mk) ELSE NoKey
      defaultProjectKey ==
        IF auth.present /\ auth.defaultProject # NONE /\ auth.defaultProject \in DOMAIN projs
          THEN getProjectApiKey(projs[auth.defaultProject], provider, mk) ELSE NoKey
      systemKey == getSystemApiKey(provider, env)
  IN IF projectKey.found THEN projectKey
     ELSE IF defaultProjectKey.found THEN defaultProjectKey
     ELSE systemKey

\* ApiKeyResolver.isProviderAllowed (project is present when this is called)
isProviderAllowed(project, provider) ==
  IF ~project.allowedProviders.defined THEN TRUE
  ELSE provider \in project.allowedProviders.list

\* ApiKeyResolver.getAuthorizationHeader
getAuthorizationHeader(provider, apiKey) ==
  LET p == ToLowerCase(provider) IN
    CASE p = "openai"    -> [header |-> "Authorization", value |-> "Bearer" \o " " \o apiKey]
      [] p = "anthropic" -> [header |-> "X-API-Key", value |-> apiKey]
      [] p = "gemini"    -> [header |-> "X-API-Key", value |-> apiKey]
      [] OTHER           -> [header |-> "Authorization", value |-> "Bearer " \o apiKey]

-----------------------------------------------------------------------------
(* ProxyHandler.handleRequest: src/proxy/api-key-resolver.ts 235-385 *)

\* the skip list with the caller's credential header forgotten
headersToSkip_NoAuthorization ==
  {"host", "x-ai-guard-provider", "connection", "content-length",
   "user-agent", "accept-encoding", "postman-token", "cache-control", "pragma"}

headersToSkip ==
  {"host", "x-ai-guard-provider", "authorization", "connection", "content-length",
   "user-agent", "accept-encoding", "postman-token", "cache-control", "pragma"}

\* headers[k] = v on a JavaScript object (keys are case sensitive)
Put(h, k, v) == [x \in (DOMAIN h) \cup {k} |-> IF x = k THEN v ELSE h[x]]

\* "Copy only essential headers from request"
CopyHeaders(inHeaders) ==
  [k \in {n \in DOMAIN inHeaders :
            inHeaders[n] # "" /\ ToLowerCase(n) \notin headersToSkip} |-> inHeaders[k]]

\* "Add constant headers from provider config (but don't override ...)"
RECURSIVE AddConstantHeaders(_, _)
AddConstantHeaders(h, consts) ==
  IF consts = {} THEN h
  ELSE LET c == CHOOSE x \in consts : TRUE
           h2 == IF c[1] \notin DOMAIN h /\ ToLowerCase(c[1]) \notin DOMAIN h
                   THEN Put(h, c[1], c[2]) ELSE h
       IN AddConstantHeaders(h2, consts \ {c})

\* the headers object handed to axios
BuildHeaders(inHeaders, providerConfig, apiKey) ==
  LET copied == CopyHeaders(inHeaders)
      withConst == AddConstantHeaders(copied, providerConfig.constantHeaders)
      authHeader == getAuthorizationHeader(providerConfig.name, apiKey)
      withAuth == Put(withConst, authHeader.header, authHeader.value)
  IN Put(withAuth, "host", ParseAbsoluteURL(providerConfig.host).host)

NoCall == [host |-> NONE, path |-> <<>>, search |-> "", headers |-> <<>>]

Fail(status, type) ==
  [kind |-> "error", status |-> status, type |-> type, call |-> NoCall,
   keySource |-> NONE, keyId |-> NONE]

\* everything handleRequest does up to the upstream call: either the error
\* it answers with, or the axios request it is about to make
HandleResult(inHeaders, path, querystring, auth, projs, mk, env) ==
  LET providerName == IF "x-ai-guard-provider" \in DOMAIN inHeaders
                        THEN inHeaders["x-ai-guard-provider"] ELSE ""
      cfgs == getProviderConfig(providerName)
  IN
  IF providerName = "" THEN Fail(400, "INVALID_REQUEST")
  ELSE IF cfgs = {} THEN Fail(400, "INVALID_PROVIDER")
  ELSE
    LET providerConfig == CHOOSE c \in cfgs : TRUE
        project == IF auth.present THEN auth.project ELSE NONE
    IN
    IF project # NONE /\ ~isProviderAllowed(projs[project], providerConfig.name)
      THEN Fail(403, "INVALID_REQUEST")
    ELSE
      LET keyResolution == resolveApiKey(auth, providerConfig.name, projs, mk, env) IN
      IF ~keyResolution.found THEN Fail(500, "CONFIGURATION_ERROR")
      ELSE
        LET targetUrl == ParseURL(path, providerConfig.host) IN
        \* new URL throws a TypeError: handleError answers 500 UPSTREAM_ERROR
        IF ~targetUrl.ok THEN Fail(500, "UPSTREAM_ERROR")
        ELSE [kind |-> "forward", status |-> 0, type |-> NONE,
              call |-> [host |-> targetUrl.host, path |-> targetUrl.path,
                        search |-> querystring,
                        headers |-> BuildHeaders(inHeaders, providerConfig,
                                                 keyResolution.apiKey)],
              keySource |-> keyResolution.source, keyId |-> keyResolution.keyId]

-----------------------------------------------------------------------------
(* Token codec, hasher and identity verifier: auth/token-validator.ts *)

HexIds == <<"00000000000000a1", "00000000000000b2", "00000000000000c3", "00000000000000d4">>
Secrets == <<"sA", "sB", "sC", "sD">>
NoExpiry == -1          \* expiresAt undefined

HexIdSet == {HexIds[i] : i \in 1..Len(HexIds)}
SecretSet == {Secrets[i] : i \in 1..Len(Secrets)}

\* TokenValidator.generateTokenString for the n-th token minted: 8 random
\* bytes of identifier, 24 random bytes of secret (distinct per mint)
generateTokenString(n) ==
  [fullToken |-> "pat_" \o HexIds[n] \o "_" \o Secrets[n],
   identifier |-> "pat_" \o HexIds[n],
   secret |-> Secrets[n]]

\* TokenValidator.parseToken: /^(pat_[a-f0-9]{16})_(.+)$/ -- the set of
\* matches (empty when the string does not have the shape)
parseToken(token) ==
  {r \in [identifier : {"pat_" \o h : h \in HexIdSet}, secret : SecretSet] :
     r.identifier \o "_" \o r.secret = token}

\* token.startsWith('pat_')
StartsWithPat(token) ==
  \/ parseToken(token) # {}
  \/ token \in {"pat_zz_sA", "pat_"}

\* TokenValidator.hashToken / compareToken (bcrypt)
hashToken(token) == "bcrypt(" \o token \o ")"
compareToken(token, hash) == hashToken(token) = hash

\* strings a caller can put after "Bearer "
PatStrings ==
  {"pat_" \o h \o "_" \o x : h \in HexIdSet, x \in SecretSet} \cup {"pat_zz_sA"}
FirebaseStrings == {"fb_f1", "fb_f2", "fb_bad"}
TokenStrings == PatStrings \cup FirebaseStrings

\* TokenValidator.extractToken
extractToken(authHeader) ==
  IF \E t \in TokenStrings : authHeader = "Bearer " \o t
    THEN CHOOSE t \in TokenStrings : authHeader = "Bearer " \o t
    ELSE authHeader

\* firebaseAdmin.verifyIdToken: the uid of a valid identity token
verifyIdToken(token) ==
  CASE token = "fb_f1" -> "f1"
    [] token = "fb_f2" -> "f2"
    [] OTHER -> NONE

UserIds == {"u1", "u2"}
NoUser == [exists |-> FALSE, firebaseUid |-> NONE, status |-> NONE,
           defaultProject |-> NONE, lastLoginAt |-> 0]

NoAuthResult == [ok |-> FALSE, userId |-> NONE, tokenIdx |-> 0, authType |-> NONE]

\* TokenRepository.findByIdentifierWithUser: indexes of the documents it
\* returns (at most one: tokenIdentifier is unique)
findByIdentifierWithUser(tokenIdentifier, toks, t) ==
  {i \in 1..Len(toks) :
     /\ toks[i].tokenIdentifier = tokenIdentifier
     /\ ~toks[i].isRevoked
     /\ ~(toks[i].expiresAt # NoExpiry /\ toks[i].expiresAt < t)}

\* TokenValidator.validatePersonalAccessToken
validatePersonalAccessToken(token, toks, usrs, t) ==
  LET parsed == parseToken(token) IN
  IF parsed = {} THEN NoAuthResult
  ELSE
    LET p == CHOOSE r \in parsed : TRUE
        result == findByIdentifierWithUser(p.identifier, toks, t)
    IN
    IF result = {} THEN NoAuthResult
    ELSE
      LET i == CHOOSE x \in result : TRUE IN
      IF ~compareToken(token, toks[i].tokenHash) THEN NoAuthResult
      ELSE IF ~usrs[toks[i].userId].exists THEN NoAuthResult
      ELSE IF usrs[toks[i].userId].status # "active" THEN NoAuthResult
      ELSE [ok |-> TRUE, userId |-> toks[i].userId, tokenIdx |-> i, authType |-> "pat"]

\* TokenRepository.updateLastUsed
updateLastUsed(toks, i, t) == [toks EXCEPT ![i].lastUsedAt = t]

\* UserRepository.findByFirebaseUid
findByFirebaseUid(uid, usrs) ==
  {u \in UserIds : usrs[u].exists /\ usrs[u].firebaseUid = uid}

\* TokenValidator.validateFirebaseToken: result and the users collection
\* after it (find-or-create keyed by the external uid, then updateLastLogin)
validateFirebaseToken(token, usrs, t) ==
  LET uid == verifyIdToken(token) IN
  IF uid = NONE THEN [res |-> NoAuthResult, users |-> usrs]
  ELSE
    LET found == findByFirebaseUid(uid, usrs)
        free == {u \in UserIds : ~usrs[u].exists}
    IN
    IF found # {} THEN
      LET u == CHOOSE x \in found : TRUE IN
        [res |-> [ok |-> TRUE, userId |-> u, tokenIdx |-> 0, authType |-> "firebase"],
         users |-> [usrs EXCEPT ![u].lastLoginAt = t]]
    ELSE IF free = {} THEN [res |-> NoAuthResult, users |-> usrs]
    ELSE
      LET u == CHOOSE x \in free : TRUE IN
        [res |-> [ok |-> TRUE, userId |-> u, tokenIdx |-> 0, authType |-> "firebase"],
         users |-> [usrs EXCEPT ![u] =
                      [exists |-> TRUE, firebaseUid |-> uid, status |-> "active",
                       defaultProject |-> NONE, lastLoginAt |-> t]]]

\* TokenValidator.validateToken: result plus both collections after it
validateToken(authHeader, toks, usrs, t) ==
  LET token == extractToken(authHeader)
      patResult == IF StartsWithPat(token)
                     THEN validatePersonalAccessToken(token, toks, usrs, t)
                     ELSE NoAuthResult
  IN
  IF patResult.ok
    THEN [res |-> patResult, tokens |-> updateLastUsed(toks, patResult.tokenIdx, t),
          users |-> usrs]
    ELSE LET fb == validateFirebaseToken(token, usrs, t) IN
           [res |-> fb.res, tokens |-> toks, users |-> fb.users]

-----------------------------------------------------------------------------
(* Documents and the Koa context *)

ProjectIds == {"p1", "p2"}

NoOverride == [defined |-> FALSE, a |-> 0, b |-> 0]
ZeroBucket == [requests |-> 0, tokens |-> 0]
ZeroUsage == [total |-> ZeroBucket, currentMonth |-> ZeroBucket, currentDay |-> ZeroBucket]

\* a project as ProjectRepository.createProject stores it (mongoose gives the
\* array path settings.allowedProviders the default [])
NewProject(ownerId) ==
  [ownerId |-> ownerId,
   members |-> <<[userId |-> ownerId, role |-> "owner"]>>,
   apiKeys |-> <<>>,
   allowedProviders |-> [defined |-> TRUE, list |-> {}],
   rateLimitOverride |-> NoOverride,    \* a = windowMs, b = maxRequests
   quotaOverride |-> NoOverride,        \* a = monthlyLimit, b = dailyLimit
   usage |-> ZeroUsage]

NoAuthState == [present |-> FALSE, userId |-> NONE, defaultProject |-> NONE,
                project |-> NONE, authType |-> NONE, tokenIdx |-> 0]

NoThrow == [kind |-> NONE, status |-> 0, type |-> NONE, origin |-> NONE]

\* a fresh context: Koa answers 404 until a status or body is set
NewCtx == [auth |-> NoAuthState, status |-> 404, errType |-> NONE,
           respHeaders |-> {}, thrown |-> NoThrow, totalTokens |-> 0]

NoReq == [headers |-> <<>>, path |-> <<>>, querystring |-> "", method |-> "POST",
          body |-> "none"]

Header(r, name) == IF name \in DOMAIN r.headers THEN r.headers[name] ELSE ""

-----------------------------------------------------------------------------
(* Request interceptors *)

MessagesPath == <<"/", "v1", "/", "messages">>
ChatPath == <<"/", "v1", "/", "chat", "/", "completions">>
GeminiPath == <<"/", "v1beta", "/", "models", "/", ":model", "/", "generateContent">>

\* RequestValidator.initializeValidationRules (the schemas are abstracted:
\* the body class of the request says whether it satisfies its schema)
validationRules ==
  {[provider |-> "openai", path |-> ChatPath, method |-> "POST"],
   [provider |-> "anthropic", path |-> MessagesPath, method |-> "POST"],
   [provider |-> "gemini", path |-> GeminiPath, method |-> "POST"]}

\* String.prototype.split('/') over a token sequence
RECURSIVE Split(_, _, _)
Split(path, i, cur) ==
  IF i > Len(path) THEN <<cur>>
  ELSE IF path[i] = "/" THEN <<cur>> \o Split(path, i + 1, <<>>)
  ELSE Split(path, i + 1, Append(cur, path[i]))

IsParam(seg) == Len(seg) = 1 /\ seg[1] \in {":model"}

\* RequestValidator.pathMatches
pathMatches(rulePath, requestPath) ==
  \/ rulePath = requestPath
  \/ LET rs == Split(rulePath, 1, <<>>)
         ps == Split(requestPath, 1, <<>>)
     IN /\ Len(rs) = Len(ps)
        /\ \A i \in 1..Len(rs) : IsParam(rs[i]) \/ rs[i] = ps[i]

\* RequestValidator.findMatchingRule for the rules of one provider
findMatchingRule(provider, path, method) ==
  {r \in validationRules :
     r.provider = provider /\ r.method = method /\ pathMatches(r.path, path)}

\* RateLimiter.defaultLimits and QuotaChecker.defaultQuotas
WindowMs == 60000
FreeMaxRequests == 10
ProMaxRequests == 100
EnterpriseMaxRequests == 1000

\* RateLimiter.determineUserTier
determineUserTier(auth, projs) ==
  IF ~auth.present THEN "free"
  ELSE IF auth.project # NONE /\ Len(projs[auth.project].members) > 5 THEN "enterprise"
  ELSE IF auth.project # NONE /\ Len(projs[auth.project].members) > 1 THEN "pro"
  ELSE "free"

\* RateLimiter.getConfigForRequest
getConfigForRequest(auth, projs) ==
  IF auth.present /\ auth.project # NONE /\ projs[auth.project].rateLimitOverride.defined
    THEN [windowMs |-> projs[auth.project].rateLimitOverride.a,
          maxRequests |-> projs[auth.project].rateLimitOverride.b]
    ELSE LET tier == determineUserTier(auth, projs) IN
           [windowMs |-> WindowMs,
            maxRequests |-> CASE tier = "enterprise" -> EnterpriseMaxRequests
                              [] tier = "pro" -> ProMaxRequests
                              [] OTHER -> FreeMaxRequests]

\* RateLimiter.generateKey
generateKey(auth) ==
  IF auth.present THEN "ratelimit:user:" \o auth.userId ELSE "ratelimit:ip:client"

\* RateLimiter.cleanupInMemoryStore
cleanupInMemoryStore(store, t) ==
  [k \in {x \in DOMAIN store : ~(store[x].resetAt < t)} |-> store[k]]

checkLimitInMemory_NoNewWindow(store, key, config, t) ==
  IF key \notin DOMAIN store
    THEN [exceeded |-> FALSE, remaining |-> config.maxRequests - 1,
          resetAt |-> t + config.windowMs,
          store |-> Put(store, key, [count |-> 1, resetAt |-> t + config.windowMs])]
    ELSE LET c == store[key].count + 1 IN
           [exceeded |-> c > config.maxRequests,
            remaining |-> IF config.maxRequests - c > 0 THEN config.maxRequests - c ELSE 0,
            resetAt |-> store[key].resetAt,
            store |-> Put(store, key, [count |-> c, resetAt |-> store[key].resetAt])]

\* RateLimiter.checkLimitInMemory: the verdict and the store after it
checkLimitInMemory(store, key, config, t) ==
  IF key \notin DOMAIN store \/ store[key].resetAt < t
    THEN [exceeded |-> FALSE, remaining |-> config.maxRequests - 1,
          resetAt |-> t + config.windowMs,
          store |-> Put(store, key, [count |-> 1, resetAt |-> t + config.windowMs])]
    ELSE LET c == store[key].count + 1 IN
           [exceeded |-> c > config.maxRequests,
            remaining |-> IF config.maxRequests - c > 0 THEN config.maxRequests - c ELSE 0,
            resetAt |-> store[key].resetAt,
            store |-> Put(store, key, [count |-> c, resetAt |-> store[key].resetAt])]

\* what the pipeline of RateLimiter.checkLimitRedis leaves in the sorted set
\* of the key: zremrangebyscore drops the scores up to t - window, zadd adds
\* the current request (whatever the verdict will be).  The TTL set by expire
\* outlives every score still inside the window, so it is not modelled
zsetAfterPipeline(zsets, key, config, t) ==
  LET old == IF key \in DOMAIN zsets THEN zsets[key] ELSE <<>>
      kept == SelectSeq(old, LAMBDA score : score > t - config.windowMs)
  IN Append(kept, t)

checkLimitRedis_FailClosed(zsets, key, config, t, ok) ==
  IF ok
    THEN LET set == zsetAfterPipeline(zsets, key, config, t)
             count == Len(SelectSeq(set, LAMBDA score : score >= t - config.windowMs))
         IN [exceeded |-> count > config.maxRequests,
             remaining |-> IF config.maxRequests - count > 0
                             THEN config.maxRequests - count ELSE 0,
             resetAt |-> t + config.windowMs,
             zsets |-> Put(zsets, key, set)]
    ELSE [exceeded |-> TRUE, remaining |-> 0,
          resetAt |-> t + config.windowMs, zsets |-> zsets]

\* RateLimiter.checkLimitRedis: the verdict and the sorted sets after it; ok
\* says whether pipeline.exec() resolved (the catch branch answers otherwise)
checkLimitRedis(zsets, key, config, t, ok) ==
  IF ok
    THEN LET set == zsetAfterPipeline(zsets, key, config, t)
             \* zcount(key, t - window, '+inf')
             count == Len(SelectSeq(set, LAMBDA score : score >= t - config.windowMs))
         IN [exceeded |-> count > config.maxRequests,
             remaining |-> IF config.maxRequests - count > 0
                             THEN config.maxRequests - count ELSE 0,
             resetAt |-> t + config.windowMs,
             zsets |-> Put(zsets, key, set)]
    ELSE [exceeded |-> FALSE, remaining |-> config.maxRequests,
          resetAt |-> t + config.windowMs, zsets |-> zsets]

FreeMonthlyLimit == 1000
FreeDailyLimit == 100
ProMonthlyLimit == 50000
ProDailyLimit == 5000
EnterpriseMonthlyLimit == 1000000
EnterpriseDailyLimit == 50000

\* QuotaChecker.determineProjectTier
determineProjectTier(project) ==
  IF Len(project.members) > 10 THEN "enterprise"
  ELSE IF Len(project.members) > 2 THEN "pro"
  ELSE "free"

\* QuotaChecker.getQuotaLimits
getQuotaLimits(project) ==
  IF project.quotaOverride.defined
    THEN [monthlyLimit |-> project.quotaOverride.a, dailyLimit |-> project.quotaOverride.b]
    ELSE LET tier == determineProjectTier(project) IN
           CASE tier = "enterprise" ->
                  [monthlyLimit |-> EnterpriseMonthlyLimit, dailyLimit |-> EnterpriseDailyLimit]
             [] tier = "pro" ->
                  [monthlyLimit |-> ProMonthlyLimit, dailyLimit |-> ProDailyLimit]
             [] OTHER ->
                  [monthlyLimit |-> FreeMonthlyLimit, dailyLimit |-> FreeDailyLimit]

Max0(x) == IF x > 0 THEN x ELSE 0

\* QuotaChecker.checkQuota
checkQuota(project) ==
  LET q == getQuotaLimits(project) IN
    [monthlyRemaining |-> Max0(q.monthlyLimit - project.usage.currentMonth.requests),
     dailyRemaining |-> Max0(q.dailyLimit - project.usage.currentDay.requests),
     \* usage >= limit * 0.9 on either window
     warning |-> \/ 10 * project.usage.currentMonth.requests >= 9 * q.monthlyLimit
                 \/ 10 * project.usage.currentDay.requests >= 9 * q.dailyLimit]

updateUsage_TotalOnly(project, requests, toks) ==
  [project EXCEPT !.usage.total =
     [requests |-> @.requests + requests, tokens |-> @.tokens + toks]]

\* ProjectRepository.updateUsage: one $inc on the three buckets
updateUsage(project, requests, toks) ==
  LET inc(b) == [requests |-> b.requests + requests, tokens |-> b.tokens + toks] IN
    [project EXCEPT !.usage = [total |-> inc(project.usage.total),
                               currentMonth |-> inc(project.usage.currentMonth),
                               currentDay |-> inc(project.usage.currentDay)]]

-----------------------------------------------------------------------------
(* The proxy route of src/server/index.ts:                                 *)
(*   errorHandler > requireAuth > security > validator > rateLimiter >     *)
(*   quotaChecker > usageTracker > proxyHandler.handleRequest              *)

Throw(kind, status, type, origin) ==
  [kind |-> kind, status |-> status, type |-> type, origin |-> origin]

\* AuthMiddleware.requireAuth: ctx.throw(401, ...) raises an HttpError, which
\* is not a ProxyError
RequireAuth ==
  /\ pc = "auth"
  /\ LET authHeader == Header(req, "authorization")
         v == validateToken(authHeader, tokens, users, now)
     IN
     IF authHeader = ""
       THEN /\ ctx' = [ctx EXCEPT !.thrown = Throw("http", 401, NONE, "auth")]
            /\ pc' = "error"
            /\ UNCHANGED <<tokens, users>>
     ELSE IF ~v.res.ok
       THEN /\ ctx' = [ctx EXCEPT !.thrown = Throw("http", 401, NONE, "auth")]
            /\ pc' = "error"
            /\ tokens' = v.tokens
            /\ users' = v.users
     ELSE /\ ctx' = [ctx EXCEPT !.auth =
                       [present |-> TRUE, userId |-> v.res.userId,
                        defaultProject |-> v.users[v.res.userId].defaultProject,
                        project |-> NONE, authType |-> v.res.authType,
                        tokenIdx |-> v.res.tokenIdx]]
          /\ pc' = "security"
          /\ tokens' = v.tokens
          /\ users' = v.users
  /\ UNCHANGED <<now, projects, masterKey, envKeys, inMemoryStore, req, upstream,
                 usageRecords, issued, everRevoked, lastAuth,
                 redis, rateLog, auditLogs, stream, outcome, response, deletion,
                 adminSecretKey, usageOps, pipelines, creating, logins>>

\* RequestValidator.createSecurityMiddleware / validateSecurityConstraints
SecurityMiddleware ==
  /\ pc = "security"
  /\ IF req.body = "oversize"
       THEN /\ ctx' = [ctx EXCEPT !.thrown = Throw("proxy", 413, "INVALID_REQUEST", "security")]
            /\ pc' = "error"
     ELSE IF req.body = "injection"
       THEN /\ ctx' = [ctx EXCEPT !.thrown = Throw("proxy", 400, "INVALID_REQUEST", "security")]
            /\ pc' = "error"
     ELSE /\ pc' = "validate"
          /\ ctx' = ctx
  /\ UNCHANGED <<now, users, tokens, projects, masterKey, envKeys, inMemoryStore, req,
                 upstream, usageRecords, issued, everRevoked, lastAuth,
                 redis, rateLog, auditLogs, stream, outcome, response, deletion,
                 adminSecretKey, usageOps, pipelines, creating, logins>>

\* RequestValidator.createMiddleware / validateRequest
ValidateMiddleware ==
  /\ pc = "validate"
  /\ LET provider == Header(req, "x-ai-guard-provider")
         rule == findMatchingRule(ToLowerCase(provider), req.path, req.method)
     IN
     IF provider = "" \/ rule = {}
       THEN pc' = "rate" /\ ctx' = ctx
     ELSE IF req.body = "none" \/ req.body = "badschema"
       THEN /\ ctx' = [ctx EXCEPT !.thrown = Throw("proxy", 400, "INVALID_REQUEST", "validate")]
            /\ pc' = "error"
     ELSE pc' = "rate" /\ ctx' = ctx
  /\ UNCHANGED <<now, users, tokens, projects, masterKey, envKeys, inMemoryStore, req,
                 upstream, usageRecords, issued, everRevoked, lastAuth,
                 redis, rateLog, auditLogs, stream, outcome, response, deletion,
                 adminSecretKey, usageOps, pipelines, creating, logins>>

RateLimitHeaders_LimitOnly == {"X-RateLimit-Limit"}

RateLimitHeaders == {"X-RateLimit-Limit", "X-RateLimit-Remaining", "X-RateLimit-Reset"}

\* failed Redis pipelines so far
BackendFailures == Cardinality({i \in DOMAIN rateLog : rateLog[i].failed})

\* RateLimiter.createMiddleware.  checkLimit uses Redis while this.redis is
\* set and the in-memory store otherwise; the in-memory store is swept on
\* about one call in a hundred, before the lookup; a Redis pipeline may fail
RateLimitMiddleware ==
  /\ pc = "rate"
  /\ \E sweep \in BOOLEAN, ok \in BOOLEAN :
       LET config == getConfigForRequest(ctx.auth, projects)
           key == generateKey(ctx.auth)
           swept == IF sweep THEN cleanupInMemoryStore(inMemoryStore, now)
                             ELSE inMemoryStore
           limit == IF redis.connected
                      THEN checkLimitRedis(redis.zsets, key, config, now, ok)
                      ELSE checkLimitInMemory(swept, key, config, now)
           hdrs == ctx.respHeaders \cup RateLimitHeaders
       IN
       /\ IF redis.connected
            THEN /\ ~sweep
                 /\ ok \/ BackendFailures < MaxBackendFailures
                 /\ redis' = [redis EXCEPT !.zsets = limit.zsets]
                 /\ inMemoryStore' = inMemoryStore
            ELSE /\ ok
                 /\ inMemoryStore' = limit.store
                 /\ redis' = redis
       /\ rateLog' = Append(rateLog,
                            [at |-> now, key |-> key, exceeded |-> limit.exceeded,
                             backend |-> IF redis.connected THEN "redis" ELSE "memory",
                             failed |-> ~ok])
       /\ IF limit.exceeded
            THEN /\ ctx' = [ctx EXCEPT !.respHeaders = hdrs \cup {"Retry-After"},
                                       !.status = 429,
                                       !.errType = "RATE_LIMIT_EXCEEDED"]
                 /\ pc' = "done"
            ELSE /\ ctx' = [ctx EXCEPT !.respHeaders = hdrs]
                 /\ pc' = "quota"
  /\ UNCHANGED <<now, users, tokens, projects, masterKey, envKeys, req,
                 upstream, usageRecords, issued, everRevoked, lastAuth,
                 auditLogs, stream, outcome, response, deletion,
                 adminSecretKey, usageOps, pipelines, creating, logins>>

\* the 'error' listener of RateLimiter.initializeRedis: the limiter drops the
\* client and uses the in-memory store from then on.  With one request in
\* flight an event during the request acts like one just before or after it
RedisError ==
  /\ redis.connected
  /\ pc \in {"idle", "done"}
  /\ redis' = [redis EXCEPT !.connected = FALSE]
  /\ UNCHANGED <<now, users, tokens, projects, masterKey, envKeys, inMemoryStore,
                 pc, req, ctx, upstream, usageRecords, issued, everRevoked, lastAuth,
                 rateLog, auditLogs, stream, outcome, response, deletion,
                 adminSecretKey, usageOps, pipelines, creating, logins>>

QuotaHeaders ==
  {"X-Quota-Monthly-Limit", "X-Quota-Monthly-Used", "X-Quota-Monthly-Remaining",
   "X-Quota-Daily-Limit", "X-Quota-Daily-Used", "X-Quota-Daily-Remaining"}

\* QuotaChecker.createMiddleware
QuotaMiddleware ==
  /\ pc = "quota"
  /\ IF ~ctx.auth.present \/ ctx.auth.project = NONE
       THEN pc' = "handler" /\ ctx' = ctx
       ELSE LET quotaStatus == checkQuota(projects[ctx.auth.project])
                hdrs == ctx.respHeaders \cup QuotaHeaders
            IN
            IF quotaStatus.monthlyRemaining <= 0 \/ quotaStatus.dailyRemaining <= 0
              THEN /\ ctx' = [ctx EXCEPT !.respHeaders = hdrs,
                                !.thrown = Throw("proxy", 429, "INVALID_REQUEST", "quota")]
                   /\ pc' = "error"
              ELSE /\ ctx' = [ctx EXCEPT !.respHeaders =
                                 hdrs \cup (IF quotaStatus.warning THEN {"X-Quota-Warning"} ELSE {})]
                   /\ pc' = "handler"
  /\ UNCHANGED <<now, users, tokens, projects, masterKey, envKeys, inMemoryStore, req,
                 upstream, usageRecords, issued, everRevoked, lastAuth,
                 redis, rateLog, auditLogs, stream, outcome, response, deletion,
                 adminSecretKey, usageOps, pipelines, creating, logins>>

MAX_RETRIES == 3

\* axios-retry's isIdempotentRequestError accepts these methods only
IsIdempotent(method) == method \in {"GET", "HEAD", "OPTIONS", "PUT", "DELETE"}

\* what the provider and the network do with the call.  validateStatus
\* accepts every status, so a response of any status ends the call; a
\* connection failure is retried MAX_RETRIES times; a timeout (ECONNABORTED)
\* is retried for idempotent methods only
UpstreamOutcomes ==
  {[kind |-> "response", failures |-> f, status |-> st] :
     f \in 0..MAX_RETRIES, st \in {200, 429, 500}}
  \cup {[kind |-> "network", failures |-> MAX_RETRIES + 1, status |-> 0],
        [kind |-> "timeout", failures |-> 1, status |-> 0]}

Attempts(o, method) ==
  CASE o.kind = "response" -> o.failures + 1
    [] o.kind = "network" -> MAX_RETRIES + 1
    [] OTHER -> 1   \* a timeout (ECONNABORTED) is excluded from both retry tests

\* ProxyHandler.isStreamingRequest
isStreamingRequest(r) ==
  \/ Header(r, "accept") = "text/event-stream"
  \/ Header(r, "accept") = "application/x-ndjson"
  \/ Header(r, "content-type") = "text/event-stream"
  \/ r.body = "stream"

\* ProxyHandler.handleRequest with handleRegularRequest / handleStreamingRequest
\* and handleError: the handler answers every error itself.  A streamed
\* response is handed to Koa as ctx.body and the handler returns at once;
\* the stream is read only after the middleware chain has unwound
HandleRequest ==
  /\ pc = "handler"
  /\ LET r == HandleResult(req.headers, req.path, req.querystring, ctx.auth,
                           projects, masterKey, envKeys)
     IN
     IF r.kind = "error"
       THEN /\ ctx' = [ctx EXCEPT !.status = r.status, !.errType = r.type]
            /\ upstream' = upstream
            /\ stream' = stream
            /\ outcome' = NONE
       ELSE \E o \in UpstreamOutcomes :
              /\ upstream' = upstream \o [i \in 1..Attempts(o, req.method) |-> r.call]
              /\ ctx' = IF o.kind = "response"
                          THEN [ctx EXCEPT !.status = o.status, !.errType = NONE,
                                           !.totalTokens =
                                              IF o.status = 200 /\ ~isStreamingRequest(req)
                                                THEN 7 ELSE 0]
                          ELSE [ctx EXCEPT !.status = 502, !.errType = "NETWORK_ERROR"]
              /\ stream' = IF o.kind = "response" /\ isStreamingRequest(req)
                             THEN "open" ELSE stream
              /\ outcome' = o.kind
  /\ pc' = "usage"
  /\ UNCHANGED <<now, users, tokens, projects, masterKey, envKeys, inMemoryStore, req,
                 usageRecords, issued, everRevoked, lastAuth,
                 redis, rateLog, auditLogs, response, deletion,
                 adminSecretKey, usageOps, pipelines, creating, logins>>

\* the upstream stream reaches its terminal event ('end' or 'error') while
\* Koa pipes it to the caller: handleStreamingRequest's listeners only log
StreamEnd ==
  /\ pc = "done"
  /\ stream = "open"
  /\ stream' = "ended"
  /\ UNCHANGED <<now, users, tokens, projects, masterKey, envKeys, inMemoryStore,
                 pc, req, ctx, upstream, usageRecords, issued, everRevoked, lastAuth,
                 redis, rateLog, auditLogs, outcome, response, deletion,
                 adminSecretKey, usageOps, pipelines, creating, logins>>

\* the caller disconnects while the stream is piped: Koa destroys the stream
ClientAbort ==
  /\ pc = "done"
  /\ stream = "open"
  /\ stream' = "aborted"
  /\ UNCHANGED <<now, users, tokens, projects, masterKey, envKeys, inMemoryStore,
                 pc, req, ctx, upstream, usageRecords, issued, everRevoked, lastAuth,
                 redis, rateLog, auditLogs, outcome, response, deletion,
                 adminSecretKey, usageOps, pipelines, creating, logins>>

\* providers the UsageRecord schema accepts
UsageProviderEnum == {"openai", "anthropic", "gemini"}

\* UsageTracker.createMiddleware after next(): trackUsage.  The record is
\* saved only if it passes the schema (projectId is required, provider is an
\* enum); the project aggregates move only for a token bound to a project
TrackUsage ==
  /\ pc = "usage"
  /\ LET provider == Header(req, "x-ai-guard-provider")
         projectId == IF ctx.auth.present /\ ctx.auth.tokenIdx # 0
                        THEN tokens[ctx.auth.tokenIdx].projectId ELSE NONE
     IN
     IF ~ctx.auth.present \/ provider = ""
       THEN UNCHANGED <<usageRecords, projects>>
       ELSE /\ usageRecords' =
                 IF projectId # NONE /\ ToLowerCase(provider) \in UsageProviderEnum
                   THEN Append(usageRecords,
                               [userId |-> ctx.auth.userId, projectId |-> projectId,
                                provider |-> ToLowerCase(provider),
                                statusCode |-> ctx.status])
                   ELSE usageRecords
            /\ projects' =
                 IF projectId # NONE /\ projectId \in DOMAIN projects
                   THEN [projects EXCEPT ![projectId] =
                           updateUsage(@, 1, IF ctx.totalTokens # 0 THEN ctx.totalTokens ELSE 1)]
                   ELSE projects
  /\ pc' = "done"
  /\ UNCHANGED <<now, users, tokens, masterKey, envKeys, inMemoryStore, req, ctx,
                 upstream, issued, everRevoked, lastAuth,
                 redis, rateLog, auditLogs, stream, outcome, response, deletion,
                 adminSecretKey, usageOps, pipelines, creating, logins>>

\* middleware/error-handler.ts: a ProxyError keeps its status and type, any
\* other error is answered 500 UPSTREAM_ERROR
ErrorHandler ==
  /\ pc = "error"
  /\ ctx' = IF ctx.thrown.kind = "proxy"
              THEN [ctx EXCEPT !.status = ctx.thrown.status, !.errType = ctx.thrown.type]
              ELSE [ctx EXCEPT !.status = 500, !.errType = "UPSTREAM_ERROR"]
  /\ pc' = "done"
  /\ UNCHANGED <<now, users, tokens, projects, masterKey, envKeys, inMemoryStore, req,
                 upstream, usageRecords, issued, everRevoked, lastAuth,
                 redis, rateLog, auditLogs, stream, outcome, response, deletion,
                 adminSecretKey, usageOps, pipelines, creating, logins>>

\* auditLogSchema: the values the schema accepts for `action`
AuditActionEnum ==
  {"auth.login", "auth.logout", "auth.token.create", "auth.token.revoke",
   "api_key.create", "api_key.update", "api_key.delete", "api_key.rotate",
   "project.create", "project.update", "project.delete",
   "project.member.add", "project.member.remove",
   "user.create", "user.update", "user.delete", "user.suspend", "user.activate"}

\* AuditService.log: the collection after the call; a document the schema
\* rejects is not saved and the error is only logged
AuditServiceLog(logs, data) ==
  IF data.action \in AuditActionEnum /\ data.status \in {"success", "failure"}
    THEN Append(logs, data)
    ELSE logs

\* the record AuditService.createMiddleware passes to AuditService.log.  No
\* route of src/server/index.ts mounts this middleware
AuditRecord(auth, r, thrown) ==
  [userId |-> auth.userId, action |-> "api." \o ToLowerCase(r.method),
   resource |-> r.path, status |-> IF thrown.kind # NONE THEN "failure" ELSE "success"]

-----------------------------------------------------------------------------
(* Initial states *)

EmptyMap == [k \in {} |-> ""]

NoLastAuth == [called |-> FALSE, token |-> NONE, ok |-> FALSE, tokenIdx |-> 0]

\* RateLimiter.redis when REDIS_URL is not configured: null
NoRedis == [connected |-> FALSE, zsets |-> EmptyMap]

\* the proxy processes that share the backend, none of them in checkLimitRedis
Processes == 1..MaxProcesses

NoPipelines == [p \in Processes |-> [pc |-> "idle", count |-> 0]]
NoLogin == [pc |-> "idle", uid |-> NONE, userId |-> NONE, status |-> NONE, ok |-> FALSE]
NoLogins == [p \in Processes |-> NoLogin]

\* no streamed response
NoStream == "none"

\* no management API call has just been answered
NoResponse == [op |-> NONE, token |-> NONE, items |-> <<>>]

\* no deleteAccount call in flight
NoDeletion == [pc |-> "idle", userTokens |-> {}]

ActiveUser(uid) == [exists |-> TRUE, firebaseUid |-> uid, status |-> "active",
                    defaultProject |-> NONE, lastLoginAt |-> 0]

\* ctx.state.auth of a caller authenticated by an identity token
FirebaseAuth(userId, defaultProject, project) ==
  [present |-> TRUE, userId |-> userId, defaultProject |-> defaultProject,
   project |-> project, authType |-> "firebase", tokenIdx |-> 0]

\* entry i of project pid as ProjectRepository.addApiKey stores it
ApiKeyEntry(pid, i, opt) ==
  [provider |-> opt.provider, isActive |-> opt.isActive, keyId |-> KeyIdOf(pid, i),
   encryptedKey |-> encryptApiKey(PlainOf(pid, i), KeyIdOf(pid, i), opt.sealedUnder)]

ApiKeyOptions ==
  [provider : {"openai", "anthropic"}, isActive : BOOLEAN, sealedUnder : MasterKeys]

\* the apiKeys arrays of at most n entries
ApiKeyLists(pid, n) ==
  {[i \in DOMAIN f |-> ApiKeyEntry(pid, i, f[i])] :
     f \in UNION {[1..k -> ApiKeyOptions] : k \in 0..n}}

\* header names a caller may send besides Authorization and the provider
\* tag (Node delivers header names in lower case)
HeaderPool ==
  {"host", "connection", "content-length", "user-agent", "accept-encoding",
   "postman-token", "cache-control", "pragma", "content-type", "accept",
   "x-api-key", "x-goog-api-key", "anthropic-version", "x-custom", "x-empty"}

HeaderValue(n) ==
  CASE n = "authorization" -> "Bearer fb_f1"
    [] n = "x-empty" -> ""
    [] OTHER -> "caller:" \o n

ProviderTags == {"openai", "anthropic", "gemini", "OpenAI", "GEMINI", "web-ui", "bogus"}

EvilPath == <<"/", "/", "evil.com", "/", "v1">>
SlashesPath == <<"/", "/">>

MkHeaders(names, tag) ==
  [n \in names \cup (IF tag = "" THEN {} ELSE {"x-ai-guard-provider"}) |->
     IF n = "x-ai-guard-provider" THEN tag ELSE HeaderValue(n)]

\* requests that reached the handler of an authenticated caller
ForwardRequests ==
  {[headers |-> MkHeaders(S \cup {"authorization"}, tag), path |-> path,
    querystring |-> q, method |-> "POST", body |-> "ok"] :
     S \in {T \in SUBSET HeaderPool : Cardinality(T) <= MaxHeaders},
     tag \in ProviderTags \cup {""},
     path \in {ChatPath, MessagesPath, EvilPath, SlashesPath},
     q \in {"", "alt=sse"}}

\* the forwarder alone: an authenticated caller without project, every
\* provider with a process-default credential
InitForward ==
  /\ now = 0
  /\ users = [u \in UserIds |-> IF u = "u1" THEN ActiveUser("f1") ELSE NoUser]
  /\ tokens = <<>>
  /\ projects = [p \in ProjectIds |-> NewProject("u1")]
  /\ masterKey = "k1"
  /\ envKeys = ProviderNames
  /\ inMemoryStore = EmptyMap
  /\ pc = "handler"
  /\ req \in ForwardRequests
  /\ ctx = [NewCtx EXCEPT !.auth = FirebaseAuth("u1", NONE, NONE)]
  /\ upstream = <<>>
  /\ usageRecords = <<>>
  /\ issued = <<>>
  /\ everRevoked = {}
  /\ lastAuth = NoLastAuth
  /\ redis = NoRedis
  /\ rateLog = <<>>
  /\ auditLogs = <<>>
  /\ stream = NoStream
  /\ outcome = NONE
  /\ response = NoResponse
  /\ deletion = NoDeletion
  /\ adminSecretKey = NONE
  /\ usageOps = <<>>
  /\ pipelines = NoPipelines
  /\ creating = <<>>
  /\ logins = NoLogins

NextHandler == HandleRequest

SpecForward == InitForward /\ [][NextHandler]_vars

\* the resolver alone: project context p1, default project p2 or a dangling
\* reference, stored credentials sealed under the current or a former master key
InitResolver ==
  /\ now = 0
  /\ \E dp \in {NONE, "p2", "p9"}, pr \in {NONE, "p1"} :
       /\ users = [u \in UserIds |->
                     IF u = "u1" THEN [ActiveUser("f1") EXCEPT !.defaultProject = dp]
                     ELSE NoUser]
       /\ ctx = [NewCtx EXCEPT !.auth = FirebaseAuth("u1", dp, pr)]
  /\ tokens = <<>>
  /\ \E k1 \in ApiKeyLists("p1", MaxKeys), k2 \in ApiKeyLists("p2", MaxDefaultKeys) :
       projects = [p \in ProjectIds |->
                     [NewProject("u1") EXCEPT
                        !.apiKeys = IF p = "p1" THEN k1 ELSE k2,
                        !.allowedProviders = [defined |-> TRUE,
                                              list |-> {"openai", "anthropic"}]]]
  /\ masterKey = "k1"
  /\ envKeys \in {{}, {"openai"}}
  /\ inMemoryStore = EmptyMap
  /\ pc = "handler"
  /\ req = [headers |-> MkHeaders({"authorization"}, "openai"), path |-> ChatPath,
            querystring |-> "", method |-> "POST", body |-> "ok"]
  /\ upstream = <<>>
  /\ usageRecords = <<>>
  /\ issued = <<>>
  /\ everRevoked = {}
  /\ lastAuth = NoLastAuth
  /\ redis = NoRedis
  /\ rateLog = <<>>
  /\ auditLogs = <<>>
  /\ stream = NoStream
  /\ outcome = NONE
  /\ response = NoResponse
  /\ deletion = NoDeletion
  /\ adminSecretKey = NONE
  /\ usageOps = <<>>
  /\ pipelines = NoPipelines
  /\ creating = <<>>
  /\ logins = NoLogins

SpecResolver == InitResolver /\ [][NextHandler]_vars

-----------------------------------------------------------------------------
(* Properties of the forwarder *)

ProviderTag == Header(req, "x-ai-guard-provider")
RegistryEntry == providerConfigs[ToLowerCase(ProviderTag)]
Forwarded == Len(upstream) > 0
HandlerReturned == pc = "usage"

\* headers of the caller that must not travel upstream
CallerOnlyHeaders ==
  {"host", "authorization", "connection", "content-length", "user-agent",
   "accept-encoding", "postman-token", "cache-control", "pragma"}

C9_AuthHeaderFollowsRegistry ==
  \A i \in 1..Len(upstream) :
    LET out == upstream[i].headers
        credential == EnvKeyOf(RegistryEntry.name)
        expected == IF RegistryEntry.authPrefix = NONE THEN credential
                    ELSE RegistryEntry.authPrefix \o " " \o credential
    IN \E h \in DOMAIN out :
         ToLowerCase(h) = ToLowerCase(RegistryEntry.authHeader) /\ out[h] = expected

\* C10: whatever path and query the caller sends, every upstream call goes to
\* the host of the registry entry's origin.
C10_UpstreamHostIsRegistryHost ==
  \A i \in 1..Len(upstream) :
    upstream[i].host = RegistryEntry.host[Len(RegistryEntry.host)]

-----------------------------------------------------------------------------
(* Properties of the credential resolver *)

\* the tier projects of the request, in resolver order
ContextProject == IF ctx.auth.project # NONE THEN <<ctx.auth.project>> ELSE <<>>
DefaultProject ==
  IF ctx.auth.defaultProject # NONE /\ ctx.auth.defaultProject \in DOMAIN projects
    THEN <<ctx.auth.defaultProject>> ELSE <<>>
TierProjects == ContextProject \o DefaultProject

HasCredential(pid) ==
  \E i \in 1..Len(projects[pid].apiKeys) :
    /\ projects[pid].apiKeys[i].provider = RegistryEntry.name
    /\ projects[pid].apiKeys[i].isActive

\* the first active credential of a project for the requested provider
FirstCredential(pid) ==
  LET keys == projects[pid].apiKeys
      i == CHOOSE j \in 1..Len(keys) :
             /\ keys[j].provider = RegistryEntry.name /\ keys[j].isActive
             /\ \A k \in 1..(j - 1) :
                  ~(keys[k].provider = RegistryEntry.name /\ keys[k].isActive)
  IN keys[i]

TiersWithCredential == {t \in 1..Len(TierProjects) : HasCredential(TierProjects[t])}
FirstTier == CHOOSE t \in TiersWithCredential : \A u \in TiersWithCredential : t <= u
SelectedCredential == FirstCredential(TierProjects[FirstTier])
SelectedDecrypts == SelectedCredential.encryptedKey.sealedUnder = getMasterKey(masterKey)

SentCredential(k) ==
  \A i \in 1..Len(upstream) : upstream[i].headers["Authorization"] = "Bearer " \o k

\* C5: the credential comes from the first tier that has one, in the order
\* project context, default project, environment; with no credential in any
\* tier the request is answered 500 CONFIGURATION_ERROR and not forwarded.
C5_FirstTierCredential ==
  HandlerReturned =>
    IF TiersWithCredential # {}
      THEN /\ SentCredential(SelectedCredential.encryptedKey.key)
           /\ SelectedDecrypts => Forwarded
    ELSE IF RegistryEntry.name \in envKeys
      THEN Forwarded /\ SentCredential(EnvKeyOf(RegistryEntry.name))
    ELSE ctx.status = 500 /\ ctx.errType = "CONFIGURATION_ERROR" /\ ~Forwarded

\* C6: when the credential selected for the request does not decrypt, the
\* request is not forwarded with any other credential.
C6_DecryptionFailsClosed ==
  (HandlerReturned /\ TiersWithCredential # {} /\ ~SelectedDecrypts) => ~Forwarded

\* the tier order holds whenever the selected credential decrypts
TierOrderWhenDecrypts ==
  (TiersWithCredential # {} /\ ~SelectedDecrypts) \/ C5_FirstTierCredential

-----------------------------------------------------------------------------
(* The whole proxy route *)

\* a PAT document as TokenRepository.createToken stores the n-th token minted
TokenDoc(n, userId, projectId, name, scopes, expiresAt) ==
  [tokenIdentifier |-> generateTokenString(n).identifier,
   tokenHash |-> hashToken(generateTokenString(n).fullToken),
   userId |-> userId, projectId |-> projectId, name |-> name, scopes |-> scopes,
   expiresAt |-> expiresAt, isRevoked |-> FALSE, lastUsedAt |-> NoExpiry]

RateKeyU1 == "ratelimit:user:u1"

\* Authorization values a caller may present: nothing, the two issued PATs
\* (with and without the Bearer prefix), a PAT with a wrong secret, identity
\* tokens of a known and of a new person, and a forged identity token
AuthorizationValues ==
  {"",
   "Bearer " \o generateTokenString(1).fullToken,
   generateTokenString(1).fullToken,
   "Bearer " \o generateTokenString(1).identifier \o "_" \o Secrets[2],
   "Bearer " \o generateTokenString(2).fullToken,
   "Bearer fb_f1", "Bearer fb_f2", "Bearer fb_bad"}

PipelineHeaders(authorization, tag) ==
  [n \in (IF authorization = "" THEN {} ELSE {"authorization"})
         \cup (IF tag = "" THEN {} ELSE {"x-ai-guard-provider"}) |->
     IF n = "authorization" THEN authorization ELSE tag]

PipelineRequests ==
  {[headers |-> PipelineHeaders(a, tag), path |-> ChatPath, querystring |-> "",
    method |-> "POST", body |-> b] :
     a \in AuthorizationValues,
     tag \in {"", "openai", "anthropic", "bogus"},
     b \in {"none", "ok", "stream", "badschema", "injection", "oversize"}}

\* user u1 owns p1 and p2 and holds two PATs: one with api:write bound to
\* p1, one with projects:read only
Init ==
  /\ now = 0
  /\ \E st \in {"active", "suspended"}, dp \in {NONE, "p2"} :
       users = [u \in UserIds |->
                  IF u = "u1" THEN [ActiveUser("f1") EXCEPT !.status = st,
                                                            !.defaultProject = dp]
                  ELSE NoUser]
  /\ \E rv \in BOOLEAN :
       tokens = <<[TokenDoc(1, "u1", "p1", "ci", {"api:write"}, NoExpiry)
                     EXCEPT !.isRevoked = rv],
                  TokenDoc(2, "u1", NONE, "reader", {"projects:read"}, NoExpiry)>>
  /\ \E k2 \in ApiKeyLists("p2", 1), al \in {{}, {"openai"}, {"anthropic"}} :
       /\ \A i \in 1..Len(k2) :
            k2[i].provider = "openai" /\ k2[i].isActive
            /\ k2[i].encryptedKey.sealedUnder = "k1"
       /\ projects = [p \in ProjectIds |->
                        IF p = "p1" THEN NewProject("u1")
                        ELSE [NewProject("u1") EXCEPT
                                !.apiKeys = k2,
                                !.allowedProviders = [defined |-> TRUE, list |-> al]]]
  /\ masterKey = "k1"
  /\ envKeys \in {{}, ProviderNames}
  /\ inMemoryStore \in
       {EmptyMap,
        [k \in {RateKeyU1} |-> [count |-> FreeMaxRequests, resetAt |-> WindowMs]]}
  /\ pc = "idle"
  /\ req = NoReq
  /\ ctx = NewCtx
  /\ upstream = <<>>
  /\ usageRecords = <<>>
  /\ issued = <<generateTokenString(1).fullToken, generateTokenString(2).fullToken>>
  /\ everRevoked = {}
  /\ lastAuth = NoLastAuth
  /\ redis = NoRedis
  /\ rateLog = <<>>
  /\ auditLogs = <<>>
  /\ stream = NoStream
  /\ outcome = NONE
  /\ response = NoResponse
  /\ deletion = NoDeletion
  /\ adminSecretKey = NONE
  /\ usageOps = <<>>
  /\ pipelines = NoPipelines
  /\ creating = <<>>
  /\ logins = NoLogins

\* a request arrives on the catch-all proxy route
Receive ==
  /\ pc = "idle"
  /\ req' \in PipelineRequests
  /\ ctx' = NewCtx
  /\ pc' = "auth"
  /\ UNCHANGED <<now, users, tokens, projects, masterKey, envKeys, inMemoryStore,
                 upstream, usageRecords, issued, everRevoked, lastAuth,
                 redis, rateLog, auditLogs, stream, outcome, response, deletion,
                 adminSecretKey, usageOps, pipelines, creating, logins>>

Next ==
  \/ Receive
  \/ RequireAuth
  \/ SecurityMiddleware
  \/ ValidateMiddleware
  \/ RateLimitMiddleware
  \/ QuotaMiddleware
  \/ HandleRequest
  \/ TrackUsage
  \/ ErrorHandler
  \/ StreamEnd
  \/ ClientAbort

Spec == Init /\ [][Next]_vars

-----------------------------------------------------------------------------
(* Properties of the proxy route *)

Answered == pc = "done"
HasAuthorization == "authorization" \in DOMAIN req.headers
HasProviderTag == "x-ai-guard-provider" \in DOMAIN req.headers

\* C1: a request without Authorization header, or whose token fails the PAT
\* path and the identity path, is answered 401 and is never forwarded.
C1_Unauthenticated401 ==
  (Answered /\ ~ctx.auth.present) => (ctx.status = 401 /\ ~Forwarded)

\* scopes that grant access to the proxied API
GrantsApiAccess(scopes) == scopes \cap {"api:read", "api:write", "admin"} # {}

\* C3: a request authenticated by a PAT whose scopes grant no API access is
\* answered 403 FORBIDDEN and is not forwarded.
C3_PatWithoutApiScope403 ==
  (Answered /\ ctx.auth.authType = "pat"
     /\ ~GrantsApiAccess(tokens[ctx.auth.tokenIdx].scopes))
    => (ctx.status = 403 /\ ctx.errType = "FORBIDDEN" /\ ~Forwarded)

\* C4: a request without X-AI-Guard-Provider, with or without valid
\* credentials, is answered 400 INVALID_REQUEST, makes no upstream call and
\* leaves no usage record.
C4_MissingProviderTag400 ==
  (Answered /\ ~HasProviderTag)
    => /\ ctx.status = 400 /\ ctx.errType = "INVALID_REQUEST"
       /\ ~Forwarded /\ usageRecords = <<>>

\* the projects whose allowlist applies to the request
ApplicableProjects == {TierProjects[t] : t \in 1..Len(TierProjects)}

\* C7: when the project that applies to the request (project context or the
\* caller's default project) has an allowedProviders list without the
\* requested provider, the handler answers 403 and does not forward,
\* whatever credential is available.
C7_AllowlistEnforced ==
  (HandlerReturned /\ HasProviderTag
     /\ ToLowerCase(ProviderTag) \in DOMAIN providerConfigs
     /\ \E p \in ApplicableProjects :
          /\ projects[p].allowedProviders.defined
          /\ RegistryEntry.name \notin projects[p].allowedProviders.list)
    => (ctx.status = 403 /\ ~Forwarded)

-----------------------------------------------------------------------------
(* Token lifecycle: PatGenerator, TokenRepository, UsersController and the  *)
(* admin status update                                                      *)

DayMs == 86400000

\* Math.ceil(a / b) for b > 0
Ceil(a, b) == -((-a) \div b)

\* TokenRepository.findByUserId(userId) without revoked tokens
findByUserId(toks, userId) ==
  {i \in 1..Len(toks) : toks[i].userId = userId /\ ~toks[i].isRevoked}

\* PatGenerator.isTokenNameUnique
isTokenNameUnique(toks, userId, name) ==
  \A i \in findByUserId(toks, userId) : toks[i].name # name

\* PatGenerator.generateToken: the collection after the n-th token is minted
\* (expiresInDays 0 stands for an absent option, which is falsy as well)
generateToken(toks, userId, projectId, name, scopes, expiresInDays, t) ==
  Append(toks,
         TokenDoc(Len(toks) + 1, userId, projectId, name, scopes,
                  IF expiresInDays # 0 THEN t + expiresInDays * DayMs ELSE NoExpiry))

\* TokenRepository.revokeToken
revokeToken(toks, i) == [toks EXCEPT ![i].isRevoked = TRUE]

\* PatGenerator.rotateToken (the caller owns token i)
rotateToken(toks, i, t) ==
  generateToken(revokeToken(toks, i), toks[i].userId, toks[i].projectId,
                toks[i].name \o " (Rotated)", toks[i].scopes,
                IF toks[i].expiresAt # NoExpiry
                  THEN Ceil(toks[i].expiresAt - t, DayMs) ELSE 0,
                t)

RECURSIVE RevokeAll(_, _)
RevokeAll(toks, S) ==
  IF S = {} THEN toks
  ELSE LET i == CHOOSE x \in S : TRUE IN RevokeAll(revokeToken(toks, i), S \ {i})

\* the clock advances by half a day
\* the fields UsersController.createToken / rotateToken answer besides the
\* raw token
CreatedView(id, doc) ==
  [id |-> id, name |-> doc.name, scopes |-> doc.scopes, projectId |-> doc.projectId,
   expiresAt |-> doc.expiresAt]

TokenView_WholeDocument(id, doc) ==
  [id |-> id, name |-> doc.name, scopes |-> doc.scopes, projectId |-> doc.projectId,
   lastUsedAt |-> doc.lastUsedAt, expiresAt |-> doc.expiresAt,
   isRevoked |-> doc.isRevoked, tokenIdentifier |-> doc.tokenIdentifier,
   tokenHash |-> doc.tokenHash]

\* the fields UsersController.listTokens answers for one token
TokenView(id, doc) ==
  [id |-> id, name |-> doc.name, scopes |-> doc.scopes, projectId |-> doc.projectId,
   lastUsedAt |-> doc.lastUsedAt, expiresAt |-> doc.expiresAt,
   isRevoked |-> doc.isRevoked]

\* TokenRepository.findByUserId(userId, includeRevoked), newest first
findByUserIdAll(toks, userId, includeRevoked) ==
  {i \in 1..Len(toks) : toks[i].userId = userId /\ (includeRevoked \/ ~toks[i].isRevoked)}

RECURSIVE NewestFirst(_)
NewestFirst(S) ==
  IF S = {} THEN <<>>
  ELSE LET i == CHOOSE x \in S : \A y \in S : y <= x IN <<i>> \o NewestFirst(S \ {i})

Tick ==
  /\ now < MaxTime * (DayMs \div 2)
  /\ now' = now + DayMs \div 2
  /\ lastAuth' = NoLastAuth
  /\ response' = NoResponse
  /\ UNCHANGED <<users, tokens, projects, masterKey, envKeys, inMemoryStore, pc, req,
                 ctx, upstream, usageRecords, issued, everRevoked,
                 redis, rateLog, auditLogs, stream, outcome, deletion,
                 adminSecretKey, usageOps, pipelines, creating, logins>>

\* UsersController.createToken by user u1
CreateToken ==
  /\ Len(tokens) < MaxTokens
  /\ users["u1"].exists
  /\ \E name \in {"ci", "dev"}, expiresInDays \in {0, 1}, projectId \in {NONE} :
       /\ isTokenNameUnique(tokens, "u1", name)
       /\ tokens' = generateToken(tokens, "u1", projectId, name, {"api:read"},
                                  expiresInDays, now)
  /\ issued' = Append(issued, generateTokenString(Len(tokens) + 1).fullToken)
  /\ lastAuth' = NoLastAuth
  /\ response' = [op |-> "createToken", token |-> generateTokenString(Len(tokens) + 1).fullToken,
                  items |-> <<CreatedView(Len(tokens'), tokens'[Len(tokens')])>>]
  /\ UNCHANGED <<now, users, projects, masterKey, envKeys, inMemoryStore, pc, req,
                 ctx, upstream, usageRecords, everRevoked,
                 redis, rateLog, auditLogs, stream, outcome, deletion,
                 adminSecretKey, usageOps, pipelines, creating, logins>>

\* UsersController.revokeToken by the owner
RevokeToken ==
  /\ \E i \in 1..Len(tokens) :
       /\ tokens[i].userId = "u1"
       /\ tokens' = revokeToken(tokens, i)
       /\ everRevoked' = everRevoked \cup {i}
  /\ lastAuth' = NoLastAuth
  /\ response' = NoResponse
  /\ UNCHANGED <<now, users, projects, masterKey, envKeys, inMemoryStore, pc, req,
                 ctx, upstream, usageRecords, issued,
                 redis, rateLog, auditLogs, stream, outcome, deletion,
                 adminSecretKey, usageOps, pipelines, creating, logins>>

\* UsersController.rotateToken by the owner
RotateToken ==
  /\ Len(tokens) < MaxTokens
  /\ \E i \in 1..Len(tokens) :
       /\ tokens[i].userId = "u1"
       /\ tokens' = rotateToken(tokens, i, now)
       /\ everRevoked' = everRevoked \cup {i}
  /\ issued' = Append(issued, generateTokenString(Len(tokens) + 1).fullToken)
  /\ lastAuth' = NoLastAuth
  /\ response' = [op |-> "rotateToken", token |-> generateTokenString(Len(tokens) + 1).fullToken,
                  items |-> <<CreatedView(Len(tokens'), tokens'[Len(tokens')])>>]
  /\ UNCHANGED <<now, users, projects, masterKey, envKeys, inMemoryStore, pc, req,
                 ctx, upstream, usageRecords,
                 redis, rateLog, auditLogs, stream, outcome, deletion,
                 adminSecretKey, usageOps, pipelines, creating, logins>>

\* UsersController.deleteAccount: soft delete, then every live token of the
\* user is revoked
DeleteAccount ==
  /\ users["u1"].exists
  /\ users' = [users EXCEPT !["u1"].status = "deleted"]
  /\ tokens' = RevokeAll(tokens, findByUserId(tokens, "u1"))
  /\ everRevoked' = everRevoked \cup findByUserId(tokens, "u1")
  /\ lastAuth' = NoLastAuth
  /\ response' = NoResponse
  /\ UNCHANGED <<now, projects, masterKey, envKeys, inMemoryStore, pc, req,
                 ctx, upstream, usageRecords, issued,
                 redis, rateLog, auditLogs, stream, outcome, deletion,
                 adminSecretKey, usageOps, pipelines, creating, logins>>

\* AdminController.updateUserStatus
AdminUpdateStatus ==
  /\ \E status \in {"active", "suspended", "deleted"} :
       /\ users["u1"].status # status
       /\ users' = [users EXCEPT !["u1"].status = status]
  /\ lastAuth' = NoLastAuth
  /\ response' = NoResponse
  /\ UNCHANGED <<now, tokens, projects, masterKey, envKeys, inMemoryStore, pc, req,
                 ctx, upstream, usageRecords, issued, everRevoked,
                 redis, rateLog, auditLogs, stream, outcome, deletion,
                 adminSecretKey, usageOps, pipelines, creating, logins>>

\* strings presented to the validator: every issued string, and issued
\* identifiers with a foreign secret
PresentedTokens ==
  {issued[i] : i \in 1..Len(issued)}
  \cup {generateTokenString(i).identifier \o "_" \o Secrets[4] : i \in 1..Len(issued)}

\* TokenValidator.validatePersonalAccessToken on a presented string
ValidatePat ==
  /\ \E s \in PresentedTokens :
       LET res == validatePersonalAccessToken(s, tokens, users, now) IN
       /\ tokens' = IF res.ok THEN updateLastUsed(tokens, res.tokenIdx, now) ELSE tokens
       /\ lastAuth' = [called |-> TRUE, token |-> s, ok |-> res.ok,
                       tokenIdx |-> res.tokenIdx]
  /\ response' = NoResponse
  /\ UNCHANGED <<now, users, projects, masterKey, envKeys, inMemoryStore, pc, req,
                 ctx, upstream, usageRecords, issued, everRevoked,
                 redis, rateLog, auditLogs, stream, outcome, deletion,
                 adminSecretKey, usageOps, pipelines, creating, logins>>

\* UsersController.listTokens by user u1
ListTokens ==
  /\ \E includeRevoked \in BOOLEAN :
       LET ids == NewestFirst(findByUserIdAll(tokens, "u1", includeRevoked)) IN
         response' = [op |-> "listTokens", token |-> NONE,
                      items |-> [k \in DOMAIN ids |-> TokenView(ids[k], tokens[ids[k]])]]
  /\ lastAuth' = NoLastAuth
  /\ UNCHANGED <<now, users, tokens, projects, masterKey, envKeys, inMemoryStore, pc, req,
                 ctx, upstream, usageRecords, issued, everRevoked,
                 redis, rateLog, auditLogs, stream, outcome, deletion,
                 adminSecretKey, usageOps, pipelines, creating, logins>>

\* UsersController.getProfile by user u1
GetProfile ==
  /\ users["u1"].exists
  /\ response' = [op |-> "getProfile", token |-> NONE,
                  items |-> <<[id |-> "u1", status |-> users["u1"].status,
                               defaultProject |-> users["u1"].defaultProject,
                               lastLoginAt |-> users["u1"].lastLoginAt]>>]
  /\ lastAuth' = NoLastAuth
  /\ UNCHANGED <<now, users, tokens, projects, masterKey, envKeys, inMemoryStore, pc, req,
                 ctx, upstream, usageRecords, issued, everRevoked,
                 redis, rateLog, auditLogs, stream, outcome, deletion,
                 adminSecretKey, usageOps, pipelines, creating, logins>>

InitTokens ==
  /\ now = 0
  /\ users = [u \in UserIds |-> IF u = "u1" THEN ActiveUser("f1") ELSE NoUser]
  /\ tokens = <<>>
  /\ projects = [p \in ProjectIds |-> NewProject("u1")]
  /\ masterKey = "k1"
  /\ envKeys = ProviderNames
  /\ inMemoryStore = EmptyMap
  /\ pc = "idle"
  /\ req = NoReq
  /\ ctx = NewCtx
  /\ upstream = <<>>
  /\ usageRecords = <<>>
  /\ issued = <<>>
  /\ everRevoked = {}
  /\ lastAuth = NoLastAuth
  /\ redis = NoRedis
  /\ rateLog = <<>>
  /\ auditLogs = <<>>
  /\ stream = NoStream
  /\ outcome = NONE
  /\ response = NoResponse
  /\ deletion = NoDeletion
  /\ adminSecretKey = NONE
  /\ usageOps = <<>>
  /\ pipelines = NoPipelines
  /\ creating = <<>>
  /\ logins = NoLogins

NextTokens ==
  \/ Tick
  \/ CreateToken
  \/ RevokeToken
  \/ RotateToken
  \/ DeleteAccount
  \/ AdminUpdateStatus
  \/ ValidatePat

SpecTokens == InitTokens /\ [][NextTokens]_vars

\* a stored token is usable: not revoked, no expiry or an expiry later than
\* now, owner active
Usable(i) ==
  /\ ~tokens[i].isRevoked
  /\ (tokens[i].expiresAt = NoExpiry \/ now < tokens[i].expiresAt)
  /\ users[tokens[i].userId].status = "active"

\* C2: PAT validation succeeds only for a usable token, it does succeed for
\* a usable token when the string issued at its creation is presented, and a
\* token that was revoked never authenticates again.
C2_PatUsableIff ==
  lastAuth.called =>
    /\ lastAuth.ok => (Usable(lastAuth.tokenIdx) /\ lastAuth.tokenIdx \notin everRevoked)
    /\ \A i \in 1..Len(tokens) :
         (Usable(i) /\ lastAuth.token = issued[i]) =>
           (lastAuth.ok /\ lastAuth.tokenIdx = i)

\* revocation is final, and validation agrees with usability away from the
\* instant of expiry
C2_ExceptAtExpiryInstant ==
  lastAuth.called =>
    /\ lastAuth.ok => lastAuth.tokenIdx \notin everRevoked
    /\ (lastAuth.ok /\ ~Usable(lastAuth.tokenIdx)) => now = tokens[lastAuth.tokenIdx].expiresAt
    /\ \A i \in 1..Len(tokens) :
         (Usable(i) /\ lastAuth.token = issued[i]) =>
           (lastAuth.ok /\ lastAuth.tokenIdx = i)

-----------------------------------------------------------------------------
(* One caller sending request after request through the proxy route while  *)
(* the clock advances: the rate limiter over its two backends               *)

HalfWindow == WindowMs \div 2

\* the caller of this scenario: user u1, signed in with an identity token
RateRequest ==
  [headers |-> PipelineHeaders("Bearer fb_f1", "openai"), path |-> ChatPath,
   querystring |-> "", method |-> "POST", body |-> "ok"]

RateConfig == getConfigForRequest(FirebaseAuth("u1", NONE, NONE), projects)

\* the log and the sorted set after n admitted requests at time 0
PriorVerdicts(n) ==
  [i \in 1..n |-> [at |-> 0, key |-> RateKeyU1, exceeded |-> FALSE,
                   backend |-> "redis", failed |-> FALSE]]

\* either REDIS_URL is not set and the limiter starts with an empty map, or
\* it is set and the caller has just been admitted maxRequests - 1 times
InitRate ==
  /\ now = 0
  /\ users = [u \in UserIds |-> IF u = "u1" THEN ActiveUser("f1") ELSE NoUser]
  /\ tokens = <<>>
  /\ projects = [p \in ProjectIds |-> NewProject("u1")]
  /\ masterKey = "k1"
  /\ envKeys = ProviderNames
  /\ inMemoryStore = EmptyMap
  /\ \/ redis = NoRedis /\ rateLog = <<>>
     \/ /\ redis = [connected |-> TRUE,
                    zsets |-> [k \in {RateKeyU1} |-> [i \in 1..(FreeMaxRequests - 1) |-> 0]]]
        /\ rateLog = PriorVerdicts(FreeMaxRequests - 1)
  /\ pc = "idle"
  /\ req = NoReq
  /\ ctx = NewCtx
  /\ upstream = <<>>
  /\ usageRecords = <<>>
  /\ issued = <<>>
  /\ everRevoked = {}
  /\ lastAuth = NoLastAuth
  /\ auditLogs = <<>>
  /\ stream = NoStream
  /\ outcome = NONE
  /\ response = NoResponse
  /\ deletion = NoDeletion
  /\ adminSecretKey = NONE
  /\ usageOps = <<>>
  /\ pipelines = NoPipelines
  /\ creating = <<>>
  /\ logins = NoLogins

\* the caller sends its next request once the previous one is answered
ReceiveRate ==
  /\ pc \in {"idle", "done"}
  /\ Len(rateLog) < MaxRateRequests
  /\ req' = RateRequest
  /\ ctx' = NewCtx
  /\ upstream' = <<>>
  /\ stream' = NoStream
  /\ pc' = "auth"
  /\ UNCHANGED <<now, users, tokens, projects, masterKey, envKeys, inMemoryStore,
                 usageRecords, issued, everRevoked, lastAuth,
                 redis, rateLog, auditLogs, response, deletion,
                 adminSecretKey, usageOps, pipelines, creating, logins>>
  /\ outcome' = NONE

\* half a rate-limit window passes between two requests
RateTick ==
  /\ pc \in {"idle", "done"}
  /\ now < MaxRateTicks * HalfWindow
  /\ now' = now + HalfWindow
  /\ UNCHANGED <<users, tokens, projects, masterKey, envKeys, inMemoryStore,
                 pc, req, ctx, upstream, usageRecords, issued, everRevoked, lastAuth,
                 redis, rateLog, auditLogs, stream, outcome, response, deletion,
                 adminSecretKey, usageOps, pipelines, creating, logins>>

NextRate ==
  \/ ReceiveRate
  \/ RateTick
  \/ RedisError
  \/ RequireAuth
  \/ SecurityMiddleware
  \/ ValidateMiddleware
  \/ RateLimitMiddleware
  \/ QuotaMiddleware
  \/ HandleRequest
  \/ TrackUsage

SpecRate == InitRate /\ [][NextRate]_vars

-----------------------------------------------------------------------------
(* Properties of the rate limiter *)

\* requests of the same principal checked before request i
Earlier(i) == {j \in 1..(i - 1) : rateLog[j].key = rateLog[i].key}

\* request j opens a window: the principal sent nothing during the
\* windowMs before it
OpensWindow(j) ==
  \A k \in Earlier(j) : rateLog[k].at < rateLog[j].at - RateConfig.windowMs

\* the checks j..i ran on one backend and none of them failed
Healthy(j, i) ==
  \A k \in j..i : ~rateLog[k].failed /\ rateLog[k].backend = rateLog[j].backend

\* the limiter has answered the request in flight
LimiterRan == RateLimitHeaders \subseteq ctx.respHeaders
LastVerdict == rateLog[Len(rateLog)]

\* C11: with maxRequests per windowMs, a request with fewer than maxRequests
\* requests of its principal in the windowMs before it is admitted; once
\* maxRequests requests were made in a window, a further request inside the
\* window is answered 429 RATE_LIMIT_EXCEEDED with Retry-After and is not
\* forwarded; a request after more than windowMs of silence is admitted
C11_WindowAdmitsThenDenies ==
  /\ \A i \in DOMAIN rateLog :
       Cardinality({j \in Earlier(i) : rateLog[j].at >= rateLog[i].at - RateConfig.windowMs})
           < RateConfig.maxRequests
         => ~rateLog[i].exceeded
  /\ \A j \in DOMAIN rateLog : \A i \in DOMAIN rateLog :
       /\ OpensWindow(j)
       /\ rateLog[i].key = rateLog[j].key
       /\ Cardinality({k \in Earlier(i) : k >= j}) >= RateConfig.maxRequests
       /\ rateLog[i].at < rateLog[j].at + RateConfig.windowMs
       /\ Healthy(j, i)
       => rateLog[i].exceeded
  /\ \A i \in DOMAIN rateLog : OpensWindow(i) => ~rateLog[i].exceeded
  /\ LimiterRan /\ LastVerdict.exceeded
       => /\ pc = "done"
          /\ ctx.status = 429
          /\ ctx.errType = "RATE_LIMIT_EXCEEDED"
          /\ "Retry-After" \in ctx.respHeaders
          /\ upstream = <<>>
  /\ LimiterRan /\ ~LastVerdict.exceeded => ctx.errType # "RATE_LIMIT_EXCEEDED"

\* the caller was denied inside a full window and admitted again after more
\* than windowMs of silence
C11_Witness ==
  /\ Len(rateLog) >= 2
  /\ rateLog[Len(rateLog) - 1].exceeded
  /\ ~LastVerdict.exceeded
  /\ LastVerdict.at > rateLog[Len(rateLog) - 1].at + RateConfig.windowMs
  /\ pc = "done"
  /\ ctx.status = 200

\* requests of i's principal inside the interval of length windowMs that
\* ends with request i
InWindowBefore(i) ==
  {j \in 1..i : /\ rateLog[j].key = rateLog[i].key
                /\ rateLog[j].at > rateLog[i].at - RateConfig.windowMs}

AdmittedInWindowBefore(i) == {j \in InWindowBefore(i) : ~rateLog[j].exceeded}

\* every check of that interval ran on one backend and none failed
HealthyWindow(i) ==
  \A j \in InWindowBefore(i) :
    ~rateLog[j].failed /\ rateLog[j].backend = rateLog[i].backend

\* C12: the limiter is a sliding-window counter on both backends: in every
\* interval of length windowMs at most maxRequests requests of a principal
\* are admitted
C12_SlidingWindow ==
  \A i \in DOMAIN rateLog :
    HealthyWindow(i) =>
      Cardinality(AdmittedInWindowBefore(i)) <= RateConfig.maxRequests

\* the same bound for the checks answered by Redis alone
SlidingWindowOnRedis ==
  \A i \in DOMAIN rateLog :
    HealthyWindow(i) /\ rateLog[i].backend = "redis" =>
      Cardinality(AdmittedInWindowBefore(i)) <= RateConfig.maxRequests

\* C13: when the Redis pipeline of a rate-limit check fails, the limiter
\* fails open: the request is admitted and goes on down the pipeline
C13_BackendErrorFailsOpen ==
  /\ \A i \in DOMAIN rateLog : rateLog[i].failed => ~rateLog[i].exceeded
  /\ LimiterRan /\ LastVerdict.failed
       => /\ pc \in {"quota", "handler", "usage", "done"}
          /\ ctx.errType # "RATE_LIMIT_EXCEEDED"
          /\ "Retry-After" \notin ctx.respHeaders
          /\ pc \in {"usage", "done"} => Len(upstream) > 0

\* a check failed for a caller whose window was full, and the request was
\* forwarded
C13_Witness ==
  /\ LimiterRan
  /\ LastVerdict.failed
  /\ Cardinality(InWindowBefore(Len(rateLog))) > RateConfig.maxRequests
  /\ pc = "done"
  /\ Len(upstream) > 0

-----------------------------------------------------------------------------
(* Requests on behalf of a project with a quota of one request per day:    *)
(* user u1 owns p1 and calls with a PAT bound to p1 or an identity token   *)

\* settings.quotaOverride of p1: monthlyLimit 10, dailyLimit 1
TightQuota == [defined |-> TRUE, a |-> 10, b |-> 1]

QuotaRequests ==
  {[headers |-> PipelineHeaders(a, "openai"), path |-> ChatPath,
    querystring |-> "", method |-> "POST", body |-> "ok"] :
     a \in {"Bearer " \o generateTokenString(1).fullToken, "Bearer fb_f1"}}

InitQuota ==
  /\ now = 0
  /\ \E dp \in {NONE, "p1"} :
       users = [u \in UserIds |->
                  IF u = "u1" THEN [ActiveUser("f1") EXCEPT !.defaultProject = dp]
                  ELSE NoUser]
  /\ tokens = <<TokenDoc(1, "u1", "p1", "ci", {"api:write"}, NoExpiry)>>
  /\ projects = [p \in ProjectIds |->
                   IF p = "p1" THEN [NewProject("u1") EXCEPT !.quotaOverride = TightQuota]
                   ELSE NewProject("u1")]
  /\ masterKey = "k1"
  /\ envKeys = ProviderNames
  /\ inMemoryStore = EmptyMap
  /\ redis = NoRedis
  /\ rateLog = <<>>
  /\ pc = "idle"
  /\ req = NoReq
  /\ ctx = NewCtx
  /\ upstream = <<>>
  /\ usageRecords = <<>>
  /\ issued = <<generateTokenString(1).fullToken>>
  /\ everRevoked = {}
  /\ lastAuth = NoLastAuth
  /\ auditLogs = <<>>
  /\ stream = NoStream
  /\ outcome = NONE
  /\ response = NoResponse
  /\ deletion = NoDeletion
  /\ adminSecretKey = NONE
  /\ usageOps = <<>>
  /\ pipelines = NoPipelines
  /\ creating = <<>>
  /\ logins = NoLogins

ReceiveQuota ==
  /\ pc \in {"idle", "done"}
  /\ Len(rateLog) < MaxQuotaRequests
  /\ req' \in QuotaRequests
  /\ ctx' = NewCtx
  /\ upstream' = <<>>
  /\ stream' = NoStream
  /\ pc' = "auth"
  /\ UNCHANGED <<now, users, tokens, projects, masterKey, envKeys, inMemoryStore,
                 usageRecords, issued, everRevoked, lastAuth,
                 redis, rateLog, auditLogs, response, deletion,
                 adminSecretKey, usageOps, pipelines, creating, logins>>
  /\ outcome' = NONE

NextQuota ==
  \/ ReceiveQuota
  \/ RequireAuth
  \/ SecurityMiddleware
  \/ ValidateMiddleware
  \/ RateLimitMiddleware
  \/ QuotaMiddleware
  \/ HandleRequest
  \/ TrackUsage

SpecQuota == InitQuota /\ [][NextQuota]_vars

-----------------------------------------------------------------------------
(* Properties of quota and usage accounting *)

\* the project a request is made for: the project of the context, else the
\* project the PAT is bound to, else the caller's default project
PatProject ==
  IF ctx.auth.tokenIdx # 0 THEN tokens[ctx.auth.tokenIdx].projectId ELSE NONE

RequestProject ==
  IF ~ctx.auth.present THEN NONE
  ELSE IF ctx.auth.project # NONE THEN ctx.auth.project
  ELSE IF PatProject # NONE THEN PatProject
  ELSE ctx.auth.defaultProject

UnderQuota(p) ==
  /\ projects[p].usage.currentDay.requests < getQuotaLimits(projects[p]).dailyLimit
  /\ projects[p].usage.currentMonth.requests < getQuotaLimits(projects[p]).monthlyLimit

\* C14: a request made for project P passes the quota stage iff P's daily
\* and monthly request counters are below their limits; otherwise it is
\* answered 429 and not forwarded.  (While the request is at the handler or
\* has just left it, the counters are those the quota stage saw.)
C14_QuotaAdmitsIffUnderLimits ==
  /\ pc \in {"handler", "usage"} /\ RequestProject # NONE => UnderQuota(RequestProject)
  /\ Answered /\ ctx.thrown.origin = "quota"
       => ctx.status = 429 /\ upstream = <<>> /\ ~UnderQuota(RequestProject)

\* the proxy itself denied the request in flight for rate or quota reasons
RateDenied == Answered /\ ctx.status = 429 /\ ctx.errType = "RATE_LIMIT_EXCEEDED"
QuotaDenied == Answered /\ ctx.status = 429 /\ ctx.thrown.origin = "quota"

\* C15: every 429 by which the proxy denies a request for rate or quota
\* reasons carries the X-RateLimit-* headers (rate) or the X-Quota-* headers
\* (quota) that explain it
C15_DenialCarriesHeaders ==
  /\ RateDenied =>
       {"X-RateLimit-Limit", "X-RateLimit-Remaining", "X-RateLimit-Reset"}
         \subseteq ctx.respHeaders
  /\ QuotaDenied =>
       {"X-Quota-Monthly-Limit", "X-Quota-Monthly-Used", "X-Quota-Monthly-Remaining",
        "X-Quota-Daily-Limit", "X-Quota-Daily-Used", "X-Quota-Daily-Remaining"}
         \subseteq ctx.respHeaders

\* a caller over the rate limit has been answered 429
C15_Witness == RateDenied /\ "Retry-After" \in ctx.respHeaders

NoCounterMoved == \A p \in ProjectIds : projects[p].usage = ZeroUsage

\* C16: usage counters advance only after a successful forward: a request
\* that got no upstream response (transport failure, timeout, missing
\* credential, forbidden provider, missing provider header, ...) increments
\* no counter of any project.  (All counters start at zero here.)
C16_NoCountWithoutForward ==
  Answered /\ outcome # "response" => NoCounterMoved

\* C17: a successfully forwarded request advances currentDay.requests and
\* currentMonth.requests of the project it was made for by exactly one,
\* whatever the authentication type, the credential tier and the retries
C17_ExactlyOnePerForward ==
  Answered /\ outcome = "response" /\ ctx.status = 200 /\ RequestProject # NONE
    => /\ projects[RequestProject].usage.currentDay.requests = 1
       /\ projects[RequestProject].usage.currentMonth.requests = 1

\* where a project is charged, it is charged once, also after retries
AtMostOnePerRequest ==
  \A p \in ProjectIds : /\ projects[p].usage.currentDay.requests <= 1
                        /\ projects[p].usage.currentMonth.requests <= 1

\* C18: for a streaming request usage accounting runs only after the
\* stream's terminal event (end, error or client abort): while the stream
\* is still open no usage record exists and no counter has moved
C18_AccountingAfterStreamEnd ==
  stream = "open" => usageRecords = <<>> /\ NoCounterMoved

\* C19: an upstream timeout is answered 504 with type TIMEOUT and leaves no
\* usage record and no counter increment
C19_TimeoutIs504Unaccounted ==
  Answered /\ outcome = "timeout"
    => /\ ctx.status = 504
       /\ ctx.errType = "TIMEOUT"
       /\ usageRecords = <<>>
       /\ NoCounterMoved

\* C20: every proxied request of an authenticated caller leaves exactly one
\* audit record, with action api.<method> and status success or failure
C20_OneAuditRecordPerRequest ==
  Answered /\ ctx.auth.present
    => /\ Len(auditLogs) = 1
       /\ auditLogs[1].action = "api." \o ToLowerCase(req.method)
       /\ auditLogs[1].status \in {"success", "failure"}

-----------------------------------------------------------------------------
(* Master key rotation: KeyManager.rotateAllKeys over the credentials      *)
(* embedded in the projects, and ProjectRepository.addApiKey               *)

ConfiguredKeys == MasterKeys \cup ShortKeys \cup {LongKey}

\* the credentials of a project after the inner loop of rotateAllKeys: an
\* entry whose rotation throws keeps its envelope
RotateProjectKeys(apiKeys, env, oldKey, newKey) ==
  [i \in DOMAIN apiKeys |->
     [apiKeys[i] EXCEPT !.encryptedKey =
        rotateEncryption(apiKeys[i].encryptedKey, env, oldKey, newKey).data]]

\* KeyManager.rotateAllKeys(oldKey, newKey).  Every call of rotateEncryption
\* sets ENCRYPTION_KEY itself before it decrypts and encrypts, and leaves the
\* text of the key it found
RotateAllKeys ==
  \E oldKey \in ConfiguredKeys, newKey \in ConfiguredKeys :
    /\ oldKey # newKey
    /\ projects' = [p \in ProjectIds |->
                      [projects[p] EXCEPT !.apiKeys =
                         RotateProjectKeys(@, masterKey, oldKey, newKey)]]
    /\ masterKey' = IF \E p \in ProjectIds : Len(projects[p].apiKeys) > 0
                      THEN BufferToString(getMasterKey(masterKey))
                      ELSE masterKey
    /\ UNCHANGED <<now, users, tokens, envKeys, inMemoryStore, pc, req, ctx, upstream,
                   usageRecords, issued, everRevoked, lastAuth,
                   redis, rateLog, auditLogs, stream, outcome, response, deletion,
                   adminSecretKey, usageOps, pipelines, creating, logins>>

\* ProjectRepository.addApiKey: a credential sealed under the master key of
\* the moment is appended to the project
AddApiKey ==
  \E p \in ProjectIds, provider \in {"openai", "anthropic"} :
    /\ Len(projects[p].apiKeys) < MaxKeys
    /\ LET i == Len(projects[p].apiKeys) + 1 IN
         projects' = [projects EXCEPT ![p].apiKeys =
                        Append(@, [provider |-> provider, isActive |-> TRUE,
                                   keyId |-> KeyIdOf(p, i),
                                   encryptedKey |->
                                     encryptApiKey(PlainOf(p, i), KeyIdOf(p, i), masterKey)])]
    /\ UNCHANGED <<now, users, tokens, masterKey, envKeys, inMemoryStore, pc, req, ctx,
                   upstream, usageRecords, issued, everRevoked, lastAuth,
                   redis, rateLog, auditLogs, stream, outcome, response, deletion,
                 adminSecretKey, usageOps, pipelines, creating, logins>>

\* the process starts with a master key of any length and no credentials
InitRotate ==
  /\ now = 0
  /\ users = [u \in UserIds |-> IF u = "u1" THEN ActiveUser("f1") ELSE NoUser]
  /\ tokens = <<>>
  /\ projects = [p \in ProjectIds |-> NewProject("u1")]
  /\ masterKey \in ConfiguredKeys
  /\ envKeys = {}
  /\ inMemoryStore = EmptyMap
  /\ redis = NoRedis
  /\ rateLog = <<>>
  /\ pc = "idle"
  /\ req = NoReq
  /\ ctx = NewCtx
  /\ upstream = <<>>
  /\ usageRecords = <<>>
  /\ issued = <<>>
  /\ everRevoked = {}
  /\ lastAuth = NoLastAuth
  /\ auditLogs = <<>>
  /\ stream = NoStream
  /\ outcome = NONE
  /\ response = NoResponse
  /\ deletion = NoDeletion
  /\ adminSecretKey = NONE
  /\ usageOps = <<>>
  /\ pipelines = NoPipelines
  /\ creating = <<>>
  /\ logins = NoLogins

NextRotate == RotateAllKeys \/ AddApiKey

SpecRotate == InitRotate /\ [][NextRotate]_vars

\* a step leaves the key that encrypt and decrypt use as it was
KeepsMasterKey == getMasterKey(masterKey') = getMasterKey(masterKey)

\* C21: rotateEncryption has no process-wide side effect: the master key
\* that encrypt and decrypt use is the same after every step as before it,
\* for a configured key of any length
C21_RotationKeepsMasterKey ==
  [][KeepsMasterKey]_vars

\* the same for a configured key of 32 ASCII bytes or more
RotationKeepsLongMasterKey ==
  [][(masterKey \in MasterKeys \cup {LongKey}) => KeepsMasterKey]_vars

-----------------------------------------------------------------------------
(* The token endpoints of the user API: what is stored and what is answered *)

NextPat ==
  \/ CreateToken
  \/ RotateToken
  \/ RevokeToken
  \/ ListTokens
  \/ GetProfile

SpecPat == InitTokens /\ [][NextPat]_vars

RawTokens == {issued[i] : i \in 1..Len(issued)}
StoredHashes == {tokens[i].tokenHash : i \in 1..Len(tokens)}

\* the string-valued fields of a stored document or of an answered item
StringFields == {"tokenIdentifier", "tokenHash", "token", "userId", "projectId", "name"}
StringsOf(r) == {r[f] : f \in DOMAIN r \cap StringFields}

\* C22: the raw PAT is never persisted (the document holds the identifier
\* and the slow hash only); it is answered once, by the call that creates or
\* rotates to the token; no read (list tokens, profile) answers the raw
\* token or its hash
C22_RawTokenOnlyAtCreation ==
  /\ \A i \in 1..Len(tokens) :
       /\ "token" \notin DOMAIN tokens[i]
       /\ StringsOf(tokens[i]) \cap RawTokens = {}
       /\ tokens[i].tokenHash = hashToken(issued[i])
       /\ \A r \in parseToken(issued[i]) : tokens[i].tokenIdentifier = r.identifier
  /\ response.token # NONE
       => /\ response.op \in {"createToken", "rotateToken"}
          /\ response.token = issued[Len(tokens)]
          /\ response.items[1].id = Len(tokens)
  /\ response.op \in {"createToken", "rotateToken"} => response.token # NONE
  /\ \A k \in DOMAIN response.items :
       /\ DOMAIN response.items[k] \cap {"token", "tokenHash"} = {}
       /\ StringsOf(response.items[k]) \cap (RawTokens \cup StoredHashes) = {}

\* the caller lists two tokens, one of them revoked by a rotation
C22_Witness ==
  /\ response.op = "listTokens"
  /\ Len(response.items) = 2
  /\ response.items[2].isRevoked
  /\ ~response.items[1].isRevoked


\* ---------------------------------------------------------------------
\* Account deletion as the sequence of database commands it issues, each
\* of which other requests of the same user may interleave with
\* ---------------------------------------------------------------------

\* deleteAccount: userRepository.deleteUser(userId), the soft delete
DeleteUser ==
  /\ deletion.pc = "idle"
  /\ users["u1"].exists
  /\ users' = [users EXCEPT !["u1"].status = "deleted"]
  /\ deletion' = [pc |-> "deleted", userTokens |-> {}]
  /\ lastAuth' = NoLastAuth
  /\ response' = NoResponse
  /\ UNCHANGED <<now, tokens, projects, masterKey, envKeys, inMemoryStore, pc, req,
                 ctx, upstream, usageRecords, issued, everRevoked,
                 redis, rateLog, auditLogs, stream, outcome,
                 adminSecretKey, usageOps, pipelines, creating, logins>>

\* deleteAccount: userTokens = tokenRepository.findByUserId(userId), the
\* tokens that are live at the moment of the read
FindUserTokens ==
  /\ deletion.pc = "deleted"
  /\ deletion' = [pc |-> "revoking", userTokens |-> findByUserId(tokens, "u1")]
  /\ lastAuth' = NoLastAuth
  /\ response' = NoResponse
  /\ UNCHANGED <<now, users, tokens, projects, masterKey, envKeys, inMemoryStore, pc, req,
                 ctx, upstream, usageRecords, issued, everRevoked,
                 redis, rateLog, auditLogs, stream, outcome,
                 adminSecretKey, usageOps, pipelines, creating, logins>>

\* deleteAccount: one tokenRepository.revokeToken(token._id) of Promise.all
RevokeUserToken ==
  /\ deletion.pc = "revoking"
  /\ \E i \in deletion.userTokens :
       /\ tokens' = revokeToken(tokens, i)
       /\ everRevoked' = everRevoked \cup {i}
       /\ deletion' = [deletion EXCEPT !.userTokens = @ \ {i}]
  /\ lastAuth' = NoLastAuth
  /\ response' = NoResponse
  /\ UNCHANGED <<now, users, projects, masterKey, envKeys, inMemoryStore, pc, req,
                 ctx, upstream, usageRecords, issued,
                 redis, rateLog, auditLogs, stream, outcome,
                 adminSecretKey, usageOps, pipelines, creating, logins>>

\* deleteAccount: every revocation has resolved, 'Account deleted successfully'
DeleteAccountDone ==
  /\ deletion.pc = "revoking"
  /\ deletion.userTokens = {}
  /\ deletion' = [deletion EXCEPT !.pc = "done"]
  /\ response' = [op |-> "deleteAccount", token |-> NONE, items |-> <<>>]
  /\ lastAuth' = NoLastAuth
  /\ UNCHANGED <<now, users, tokens, projects, masterKey, envKeys, inMemoryStore, pc, req,
                 ctx, upstream, usageRecords, issued, everRevoked,
                 redis, rateLog, auditLogs, stream, outcome,
                 adminSecretKey, usageOps, pipelines, creating, logins>>

NextDelete ==
  \/ CreateToken
  \/ RotateToken
  \/ DeleteUser
  \/ FindUserTokens
  \/ RevokeUserToken
  \/ DeleteAccountDone

SpecDelete == InitTokens /\ [][NextDelete]_vars

\* the step in which deleteAccount answers
DeletionCompletes == deletion.pc # "done" /\ deletion'.pc = "done"

\* the user is soft-deleted and holds no live token
DeletedAndRevoked ==
  /\ users["u1"].status = "deleted"
  /\ \A i \in 1..Len(tokens) : tokens[i].userId = "u1" => tokens[i].isRevoked

\* C23: when deleteAccount completes, the user's status is deleted and every
\* token of the user is revoked, whatever token creations or rotations of the
\* same user interleaved with the deletion.
C23_DeletionRevokesEveryToken == [][DeletionCompletes => DeletedAndRevoked']_vars


\* ---------------------------------------------------------------------
\* The admin routes: /_api/admin/* through errorEnricher and requireAdmin
\* ---------------------------------------------------------------------
AdminPath == <<"_api", "admin", "users">>

AdminKeys == {"adm1", "adm2"}

\* AuthMiddleware.requireAdmin: 0 when next() is called, else the status thrown
requireAdmin(auth, adminKey, secret) ==
  IF ~auth.present THEN 401
  ELSE IF adminKey = secret /\ secret # NONE THEN 0
  ELSE IF auth.authType = "pat" /\ auth.tokenIdx # 0
            /\ "admin" \in tokens[auth.tokenIdx].scopes THEN 0
  ELSE 403

\* ErrorEnricher.enrichError for an error of ctx.throw(status): only an
\* UnauthorizedError keeps its status
enrichError(status) == IF status = 401 THEN 401 ELSE 500

AdminRequests ==
  {[headers |-> [n \in (IF a = "" THEN {} ELSE {"authorization"})
                       \cup (IF k = "" THEN {} ELSE {"x-admin-key"}) |->
                   IF n = "authorization" THEN a ELSE k],
    path |-> AdminPath, querystring |-> "", method |-> "GET", body |-> "none"] :
     a \in {"", "Bearer " \o generateTokenString(1).fullToken,
            "Bearer " \o generateTokenString(2).fullToken, "Bearer fb_f1"},
     k \in {""} \cup AdminKeys}

\* a request for an admin route arrives
ReceiveAdmin ==
  /\ pc \in {"idle", "done"}
  /\ \E r \in AdminRequests : req' = r
  /\ ctx' = NewCtx
  /\ pc' = "admin"
  /\ UNCHANGED <<now, users, tokens, projects, masterKey, envKeys, inMemoryStore,
                 upstream, usageRecords, issued, everRevoked, lastAuth,
                 redis, rateLog, auditLogs, stream, outcome, response, deletion,
                 adminSecretKey, usageOps, pipelines, creating, logins>>

\* the layers that match /_api/admin/*: errorEnricher, requireAdmin, the
\* controller; ctx.state.auth is what the layers before requireAdmin left
AdminRoute ==
  /\ pc = "admin"
  /\ LET thrown == requireAdmin(ctx.auth, Header(req, "x-admin-key"), adminSecretKey) IN
       ctx' = IF thrown = 0 THEN [ctx EXCEPT !.status = 200]
              ELSE [ctx EXCEPT !.status = enrichError(thrown),
                               !.thrown = Throw("http", thrown, NONE, "admin")]
  /\ pc' = "done"
  /\ UNCHANGED <<now, users, tokens, projects, masterKey, envKeys, inMemoryStore, req,
                 upstream, usageRecords, issued, everRevoked, lastAuth,
                 redis, rateLog, auditLogs, stream, outcome, response, deletion,
                 adminSecretKey, usageOps, pipelines, creating, logins>>

\* user u1 holds a token with the admin scope and one without; the admin
\* secret is configured or not
InitAdmin ==
  /\ now = 0
  /\ users = [u \in UserIds |-> IF u = "u1" THEN ActiveUser("f1") ELSE NoUser]
  /\ tokens = generateToken(generateToken(<<>>, "u1", NONE, "ci", {"admin"}, 0, 0),
                            "u1", NONE, "dev", {"api:read"}, 0, 0)
  /\ projects = [p \in ProjectIds |-> NewProject("u1")]
  /\ masterKey = "k1"
  /\ envKeys = ProviderNames
  /\ inMemoryStore = EmptyMap
  /\ pc = "idle"
  /\ req = NoReq
  /\ ctx = NewCtx
  /\ upstream = <<>>
  /\ usageRecords = <<>>
  /\ issued = <<generateTokenString(1).fullToken, generateTokenString(2).fullToken>>
  /\ everRevoked = {}
  /\ lastAuth = NoLastAuth
  /\ redis = NoRedis
  /\ rateLog = <<>>
  /\ auditLogs = <<>>
  /\ stream = NoStream
  /\ outcome = NONE
  /\ response = NoResponse
  /\ deletion = NoDeletion
  /\ adminSecretKey \in {NONE, "adm1"}
  /\ usageOps = <<>>
  /\ pipelines = NoPipelines
  /\ creating = <<>>
  /\ logins = NoLogins

NextAdmin ==
  \/ ReceiveAdmin
  \/ AdminRoute
  \/ RevokeToken
  \/ Tick

SpecAdmin == InitAdmin /\ [][NextAdmin]_vars

\* the request in flight carries the configured admin secret
CarriesAdminKey ==
  adminSecretKey # NONE /\ Header(req, "x-admin-key") = adminSecretKey

\* the request in flight carries a valid PAT that has the admin scope
CarriesAdminPat ==
  LET v == validateToken(Header(req, "authorization"), tokens, users, now).res IN
    v.ok /\ v.authType = "pat" /\ "admin" \in tokens[v.tokenIdx].scopes

\* the step in which the admin route answers the request in flight
AdminAnswers == pc = "admin" /\ pc' = "done"

AdmittedIffCredential ==
  AdminAnswers => ((ctx'.status = 200) <=> (CarriesAdminKey \/ CarriesAdminPat))

\* C24: a request under /_api/admin/* is admitted iff it carries X-Admin-Key
\* equal to the configured ADMIN_SECRET_KEY or a PAT with the admin scope;
\* either alone suffices, and no X-Admin-Key value is accepted when the
\* secret is not configured.
C24_AdminAdmittedIffKeyOrAdminPat == [][AdmittedIffCredential]_vars


\* ---------------------------------------------------------------------
\* The provider registry as the handler uses it
\* ---------------------------------------------------------------------

\* the handler has answered a request that names a provider
AnsweredTagged == pc = "usage" /\ ProviderTag # ""

\* C25: the registry has exactly the entries openai, anthropic and gemini:
\* getSupportedProviders returns exactly these, getProviderConfig matches
\* the tag whatever its case, and a request with any other tag is rejected
\* as INVALID_PROVIDER without an upstream call.
C25_RegistryIsExactlyThree ==
  /\ getSupportedProviders = ProviderNames
  /\ \A tag \in ProviderTags :
       (getProviderConfig(tag) # {}) <=> (ToLowerCase(tag) \in ProviderNames)
  /\ (AnsweredTagged /\ ToLowerCase(ProviderTag) \notin ProviderNames)
       => (ctx.errType = "INVALID_PROVIDER" /\ upstream = <<>>)


\* ---------------------------------------------------------------------
\* The usage counters under concurrent updates and resets: every
\* repository call is one update command, which the store applies to a
\* document atomically, so the commands of concurrent callers are applied
\* in some order
\* ---------------------------------------------------------------------

\* ProjectRepository.resetDailyUsage on one document
resetDailyUsage(project) == [project EXCEPT !.usage.currentDay = ZeroBucket]

\* ProjectRepository.resetMonthlyUsage on one document
resetMonthlyUsage(project) == [project EXCEPT !.usage.currentMonth = ZeroBucket]

\* a caller's updateUsage(projectId, {requests, tokens}) is applied
UpdateUsage ==
  /\ Len(usageOps) < MaxUsageOps
  /\ \E p \in ProjectIds, toks \in {1, 7} :
       /\ projects' = [projects EXCEPT ![p] = updateUsage(@, 1, toks)]
       /\ usageOps' = Append(usageOps, [op |-> "inc", projectId |-> p,
                                        requests |-> 1, tokens |-> toks])
  /\ UNCHANGED <<now, users, tokens, masterKey, envKeys, inMemoryStore, pc, req, ctx,
                 upstream, usageRecords, issued, everRevoked, lastAuth,
                 redis, rateLog, auditLogs, stream, outcome, response, deletion,
                 adminSecretKey, pipelines, creating, logins>>

\* resetDailyUsage(): updateMany over every project
ResetDailyUsage ==
  /\ Len(usageOps) < MaxUsageOps
  /\ projects' = [p \in ProjectIds |-> resetDailyUsage(projects[p])]
  /\ usageOps' = Append(usageOps, [op |-> "resetDay", projectId |-> NONE,
                                   requests |-> 0, tokens |-> 0])
  /\ UNCHANGED <<now, users, tokens, masterKey, envKeys, inMemoryStore, pc, req, ctx,
                 upstream, usageRecords, issued, everRevoked, lastAuth,
                 redis, rateLog, auditLogs, stream, outcome, response, deletion,
                 adminSecretKey, pipelines, creating, logins>>

\* resetMonthlyUsage(): updateMany over every project
ResetMonthlyUsage ==
  /\ Len(usageOps) < MaxUsageOps
  /\ projects' = [p \in ProjectIds |-> resetMonthlyUsage(projects[p])]
  /\ usageOps' = Append(usageOps, [op |-> "resetMonth", projectId |-> NONE,
                                   requests |-> 0, tokens |-> 0])
  /\ UNCHANGED <<now, users, tokens, masterKey, envKeys, inMemoryStore, pc, req, ctx,
                 upstream, usageRecords, issued, everRevoked, lastAuth,
                 redis, rateLog, auditLogs, stream, outcome, response, deletion,
                 adminSecretKey, pipelines, creating, logins>>

NextUsage ==
  \/ UpdateUsage
  \/ ResetDailyUsage
  \/ ResetMonthlyUsage

SpecUsage == InitTokens /\ [][NextUsage]_vars

\* index of the last command `op` applied, 0 when there was none
LastOp(op) ==
  IF \E i \in 1..Len(usageOps) : usageOps[i].op = op
    THEN CHOOSE i \in 1..Len(usageOps) :
           /\ usageOps[i].op = op
           /\ \A j \in (i + 1)..Len(usageOps) : usageOps[j].op # op
    ELSE 0

\* sum of field f over the increments of project p applied after index from
RECURSIVE IncrementsAfter(_, _, _)
IncrementsAfter(p, f, from) ==
  IF from >= Len(usageOps) THEN 0
  ELSE (IF usageOps[from + 1].op = "inc" /\ usageOps[from + 1].projectId = p
          THEN usageOps[from + 1][f] ELSE 0)
       + IncrementsAfter(p, f, from + 1)

\* C26: no usage update is lost: after any order of updates and resets each
\* counter of a project holds the sum of the increments applied after the
\* last reset of its window (the total: of all increments).
C26_NoLostUpdate ==
  \A p \in ProjectIds : \A f \in {"requests", "tokens"} :
    /\ projects[p].usage.total[f] = IncrementsAfter(p, f, 0)
    /\ projects[p].usage.currentDay[f] = IncrementsAfter(p, f, LastOp("resetDay"))
    /\ projects[p].usage.currentMonth[f] = IncrementsAfter(p, f, LastOp("resetMonth"))

\* two updates of p1, a daily reset, and another update of p1
C26_Witness ==
  /\ Len(usageOps) = MaxUsageOps
  /\ LastOp("resetDay") = 3
  /\ projects["p1"].usage.total.requests = 3
  /\ projects["p1"].usage.currentDay.requests = 1


\* ---------------------------------------------------------------------
\* The quota budget under requests processed one at a time
\* ---------------------------------------------------------------------

\* C27: the quota stage over-admits at most the requests that are in flight
\* between admission and counter increment; when requests are processed one
\* at a time (none is in flight while another is admitted) the daily and
\* monthly request counters of a project never exceed their limits.
C27_CountersWithinLimits ==
  \A p \in ProjectIds :
    /\ projects[p].usage.currentDay.requests <= getQuotaLimits(projects[p]).dailyLimit
    /\ projects[p].usage.currentMonth.requests <= getQuotaLimits(projects[p]).monthlyLimit


\* ---------------------------------------------------------------------
\* checkLimitRedis of several proxy processes on one key.  A pipeline
\* is a batch of commands, not a transaction: the backend runs the
\* commands of each process in their order, and the commands of other
\* processes may run between them.
\* ---------------------------------------------------------------------

\* the limit in force for the principal: the override of project p1
PipelineConfig == getConfigForRequest(FirebaseAuth("u1", NONE, "p1"), projects)

ZsetOf(key) == IF key \in DOMAIN redis.zsets THEN redis.zsets[key] ELSE <<>>

\* what a backend command leaves alone
PipelineFrame ==
  UNCHANGED <<now, users, tokens, projects, masterKey, envKeys, inMemoryStore, pc, req,
              ctx, upstream, usageRecords, issued, everRevoked, lastAuth,
              rateLog, auditLogs, stream, outcome, response, deletion,
              adminSecretKey, usageOps, creating, logins>>

\* checkLimitRedis is entered by a process; now = Date.now()
StartPipeline ==
  /\ redis.connected
  /\ \E p \in Processes :
       /\ pipelines[p].pc = "idle"
       /\ pipelines' = [pipelines EXCEPT ![p].pc = "zremrangebyscore"]
  /\ UNCHANGED redis
  /\ PipelineFrame

\* pipeline.zremrangebyscore(key, '-inf', now - window)
Zremrangebyscore ==
  /\ \E p \in Processes :
       /\ pipelines[p].pc = "zremrangebyscore"
       /\ pipelines' = [pipelines EXCEPT ![p].pc = "zadd"]
  /\ redis' = [redis EXCEPT !.zsets =
                 Put(@, RateKeyU1,
                     SelectSeq(ZsetOf(RateKeyU1),
                               LAMBDA score : score > now - PipelineConfig.windowMs))]
  /\ PipelineFrame

\* pipeline.zadd(key, now, `${now}-${Math.random()}`)
Zadd ==
  /\ \E p \in Processes :
       /\ pipelines[p].pc = "zadd"
       /\ pipelines' = [pipelines EXCEPT ![p].pc = "zcount"]
  /\ redis' = [redis EXCEPT !.zsets = Put(@, RateKeyU1, Append(ZsetOf(RateKeyU1), now))]
  /\ PipelineFrame

\* pipeline.zcount(key, now - window, '+inf')
Zcount ==
  /\ \E p \in Processes :
       /\ pipelines[p].pc = "zcount"
       /\ pipelines' = [pipelines EXCEPT
                          ![p].pc = "expire",
                          ![p].count = Len(SelectSeq(ZsetOf(RateKeyU1),
                                             LAMBDA score :
                                               score >= now - PipelineConfig.windowMs))]
  /\ UNCHANGED redis
  /\ PipelineFrame

\* pipeline.expire(key, ...), after which exec() resolves and the verdict
\* exceeded = count > max is returned
Expire ==
  /\ \E p \in Processes :
       /\ pipelines[p].pc = "expire"
       /\ pipelines' = [pipelines EXCEPT ![p].pc = "done"]
  /\ UNCHANGED redis
  /\ PipelineFrame

\* the backend is connected and holds no entry; project p1 limits its
\* callers to one or two requests per window
InitPipeline ==
  /\ now = 0
  /\ users = [u \in UserIds |-> IF u = "u1" THEN ActiveUser("f1") ELSE NoUser]
  /\ tokens = <<>>
  /\ \E m \in {1, 2} :
       projects = [p \in ProjectIds |->
                     IF p = "p1"
                       THEN [NewProject("u1") EXCEPT
                               !.rateLimitOverride = [defined |-> TRUE, a |-> WindowMs, b |-> m]]
                       ELSE NewProject("u1")]
  /\ masterKey = "k1"
  /\ envKeys = ProviderNames
  /\ inMemoryStore = EmptyMap
  /\ pc = "idle"
  /\ req = NoReq
  /\ ctx = NewCtx
  /\ upstream = <<>>
  /\ usageRecords = <<>>
  /\ issued = <<>>
  /\ everRevoked = {}
  /\ lastAuth = NoLastAuth
  /\ redis = [connected |-> TRUE, zsets |-> EmptyMap]
  /\ rateLog = <<>>
  /\ auditLogs = <<>>
  /\ stream = NoStream
  /\ outcome = NONE
  /\ response = NoResponse
  /\ deletion = NoDeletion
  /\ adminSecretKey = NONE
  /\ usageOps = <<>>
  /\ pipelines = NoPipelines
  /\ creating = <<>>
  /\ logins = NoLogins

NextPipeline ==
  \/ StartPipeline
  \/ Zremrangebyscore
  \/ Zadd
  \/ Zcount
  \/ Expire

SpecPipeline == InitPipeline /\ [][NextPipeline]_vars

\* the requests whose check has returned, and those of them it admitted
Checked == {p \in Processes : pipelines[p].pc = "done"}
AdmittedByCheck == {p \in Checked : ~(pipelines[p].count > PipelineConfig.maxRequests)}
NoneInFlight == \A p \in Processes : pipelines[p].pc \in {"idle", "done"}

\* C28: the shared-backend check acts as one atomic step per request: of k
\* requests of one principal that arrive on an empty window with limit m,
\* exactly min(k, m) are admitted, in every interleaving of the commands.
C28_AdmitsMinOfArrivalsAndLimit ==
  NoneInFlight =>
    Cardinality(AdmittedByCheck) = Min({Cardinality(Checked), PipelineConfig.maxRequests})


\* ---------------------------------------------------------------------
\* Rate-limit and quota policy of a project, by override or by tier
\* ---------------------------------------------------------------------

\* project.members of a project with n members, the owner first
MembersOf(ownerId, n) ==
  [i \in 1..n |-> IF i = 1 THEN [userId |-> ownerId, role |-> "owner"]
                  ELSE [userId |-> "u2", role |-> "member"]]

MemberCounts == {1, 2, 6}

\* project p1 has one, two or six members and may carry a rate-limit
\* override; user u1 holds a PAT bound to p1 and may have p1 as default project
InitPolicy ==
  /\ now = 0
  /\ \E dp \in {NONE, "p1"} :
       users = [u \in UserIds |->
                  IF u = "u1" THEN [ActiveUser("f1") EXCEPT !.defaultProject = dp]
                  ELSE NoUser]
  /\ tokens = <<TokenDoc(1, "u1", "p1", "ci", {"api:write"}, NoExpiry)>>
  /\ \E n \in MemberCounts,
        o \in {NoOverride, [defined |-> TRUE, a |-> WindowMs, b |-> 1]} :
       projects = [p \in ProjectIds |->
                     IF p = "p1"
                       THEN [NewProject("u1") EXCEPT !.members = MembersOf("u1", n),
                                                      !.rateLimitOverride = o]
                       ELSE NewProject("u1")]
  /\ masterKey = "k1"
  /\ envKeys = ProviderNames
  /\ inMemoryStore = EmptyMap
  /\ redis = NoRedis
  /\ rateLog = <<>>
  /\ pc = "idle"
  /\ req = NoReq
  /\ ctx = NewCtx
  /\ upstream = <<>>
  /\ usageRecords = <<>>
  /\ issued = <<generateTokenString(1).fullToken>>
  /\ everRevoked = {}
  /\ lastAuth = NoLastAuth
  /\ auditLogs = <<>>
  /\ stream = NoStream
  /\ outcome = NONE
  /\ response = NoResponse
  /\ deletion = NoDeletion
  /\ adminSecretKey = NONE
  /\ usageOps = <<>>
  /\ pipelines = NoPipelines
  /\ creating = <<>>
  /\ logins = NoLogins

SpecPolicy == InitPolicy /\ [][NextQuota]_vars

\* the tier of a member count: at most one member free, two to five pro,
\* more than five enterprise
TierOfMembers(n) == IF n > 5 THEN "enterprise" ELSE IF n > 1 THEN "pro" ELSE "free"

\* the rate-limit policy of a project: its override, else that of its tier
RatePolicy(project) ==
  IF project.rateLimitOverride.defined
    THEN [windowMs |-> project.rateLimitOverride.a,
          maxRequests |-> project.rateLimitOverride.b]
    ELSE [windowMs |-> WindowMs,
          maxRequests |-> CASE TierOfMembers(Len(project.members)) = "enterprise"
                                 -> EnterpriseMaxRequests
                            [] TierOfMembers(Len(project.members)) = "pro"
                                 -> ProMaxRequests
                            [] OTHER -> FreeMaxRequests]

\* C29: the rate-limit policy applied to a caller with a project (the PAT's
\* project, a hint or the default project) is the project's
\* rateLimitOverride when set, else the limit of its tier by member count.
C29_ProjectRatePolicyApplied ==
  (pc = "rate" /\ RequestProject # NONE)
    => getConfigForRequest(ctx.auth, projects) = RatePolicy(projects[RequestProject])

\* C30: the quota stage infers the tier from the member count exactly as the
\* rate limiter does (at most one free, two to five pro, more than five
\* enterprise), and quotaOverride takes precedence over the tier.
C30_QuotaTierAsRateTier ==
  \A p \in ProjectIds :
    /\ determineProjectTier(projects[p]) = TierOfMembers(Len(projects[p].members))
    /\ determineProjectTier(projects[p])
         = determineUserTier(FirebaseAuth("u1", NONE, p), projects)
    /\ projects[p].quotaOverride.defined
         => getQuotaLimits(projects[p]) = [monthlyLimit |-> projects[p].quotaOverride.a,
                                            dailyLimit |-> projects[p].quotaOverride.b]


\* ---------------------------------------------------------------------
\* The source the resolver reports for the credential it returns
\* ---------------------------------------------------------------------

\* what resolveApiKey returns for the request in flight
ResolvedKey == resolveApiKey(ctx.auth, ProviderTag, projects, masterKey, envKeys)

\* the resolved credential is stored in project pid
ResolvedFrom(pid) ==
  \E i \in 1..Len(projects[pid].apiKeys) : projects[pid].apiKeys[i].keyId = ResolvedKey.keyId

\* C31: the resolver reports source = project only for a credential of the
\* request's project context, source = user for a credential of the caller's
\* default project, and source = system for the process-default credential.
C31_SourceNamesTheTier ==
  ResolvedKey.found =>
    ResolvedKey.source =
      (IF ctx.auth.project # NONE /\ ResolvedFrom(ctx.auth.project) THEN "project"
       ELSE IF DefaultProject # <<>> /\ ResolvedFrom(DefaultProject[1]) THEN "user"
       ELSE "system")


\* ---------------------------------------------------------------------
\* Upstream attempts by request method
\* ---------------------------------------------------------------------

\* requests of every method class that reached the handler
RetryRequests ==
  {[headers |-> MkHeaders({"authorization"}, tag), path |-> path,
    querystring |-> "", method |-> method, body |-> "ok"] :
     tag \in ProviderNames,
     path \in {ChatPath, MessagesPath},
     method \in {"GET", "POST", "PUT", "DELETE"}}

InitRetry ==
  /\ now = 0
  /\ users = [u \in UserIds |-> IF u = "u1" THEN ActiveUser("f1") ELSE NoUser]
  /\ tokens = <<>>
  /\ projects = [p \in ProjectIds |-> NewProject("u1")]
  /\ masterKey = "k1"
  /\ envKeys = ProviderNames
  /\ inMemoryStore = EmptyMap
  /\ pc = "handler"
  /\ req \in RetryRequests
  /\ ctx = [NewCtx EXCEPT !.auth = FirebaseAuth("u1", NONE, NONE)]
  /\ upstream = <<>>
  /\ usageRecords = <<>>
  /\ issued = <<>>
  /\ everRevoked = {}
  /\ lastAuth = NoLastAuth
  /\ redis = NoRedis
  /\ rateLog = <<>>
  /\ auditLogs = <<>>
  /\ stream = NoStream
  /\ outcome = NONE
  /\ response = NoResponse
  /\ deletion = NoDeletion
  /\ adminSecretKey = NONE
  /\ usageOps = <<>>
  /\ pipelines = NoPipelines
  /\ creating = <<>>
  /\ logins = NoLogins

SpecRetry == InitRetry /\ [][NextHandler]_vars

\* the forward ended with a 5xx response of the provider
Answered5xx == outcome = "response" /\ ctx.status >= 500

\* C32: a 5xx response to a request with an idempotent method is retried (so
\* such a response reaches the caller only after 1 + maxRetries attempts), a
\* 5xx response to a POST is never retried, and no forward makes more than
\* 1 + maxRetries attempts.
C32_RetryOnlyIdempotent5xx ==
  (HandlerReturned /\ Forwarded) =>
    /\ Len(upstream) <= 1 + MAX_RETRIES
    /\ (Answered5xx /\ IsIdempotent(req.method)) => Len(upstream) = 1 + MAX_RETRIES

\* no forward makes more than 1 + maxRetries attempts
AttemptsBounded == Len(upstream) <= 1 + MAX_RETRIES


\* ---------------------------------------------------------------------
\* Which requests the handler treats as streaming
\* ---------------------------------------------------------------------

StreamHeaders(accept, contentType) ==
  [n \in {"authorization", "x-ai-guard-provider"}
         \cup (IF accept = "" THEN {} ELSE {"accept"})
         \cup (IF contentType = "" THEN {} ELSE {"content-type"}) |->
     CASE n = "accept" -> accept
       [] n = "content-type" -> contentType
       [] n = "x-ai-guard-provider" -> "openai"
       [] OTHER -> HeaderValue(n)]

StreamRequests ==
  {[headers |-> StreamHeaders(accept, contentType), path |-> ChatPath,
    querystring |-> "", method |-> "POST", body |-> b] :
     accept \in {"", "application/json", "text/event-stream", "application/x-ndjson"},
     contentType \in {"", "application/json", "text/event-stream"},
     b \in {"ok", "stream"}}

InitStream ==
  /\ now = 0
  /\ users = [u \in UserIds |-> IF u = "u1" THEN ActiveUser("f1") ELSE NoUser]
  /\ tokens = <<>>
  /\ projects = [p \in ProjectIds |-> NewProject("u1")]
  /\ masterKey = "k1"
  /\ envKeys = ProviderNames
  /\ inMemoryStore = EmptyMap
  /\ pc = "handler"
  /\ req \in StreamRequests
  /\ ctx = [NewCtx EXCEPT !.auth = FirebaseAuth("u1", NONE, NONE)]
  /\ upstream = <<>>
  /\ usageRecords = <<>>
  /\ issued = <<>>
  /\ everRevoked = {}
  /\ lastAuth = NoLastAuth
  /\ redis = NoRedis
  /\ rateLog = <<>>
  /\ auditLogs = <<>>
  /\ stream = NoStream
  /\ outcome = NONE
  /\ response = NoResponse
  /\ deletion = NoDeletion
  /\ adminSecretKey = NONE
  /\ usageOps = <<>>
  /\ pipelines = NoPipelines
  /\ creating = <<>>
  /\ logins = NoLogins

SpecStream == InitStream /\ [][NextHandler]_vars

\* the Accept header asks for a stream, or the JSON body has stream: true
AsksForStream ==
  \/ Header(req, "accept") \in {"text/event-stream", "application/x-ndjson"}
  \/ req.body = "stream"

\* C33: a request is treated as streaming iff its Accept header contains
\* text/event-stream or application/x-ndjson or its JSON body has
\* stream: true; its Content-Type does not make it streaming.
C33_StreamingIffAcceptOrBody ==
  (HandlerReturned /\ outcome = "response") => ((stream = "open") <=> AsksForStream)


\* ---------------------------------------------------------------------
\* Project membership: the member endpoints of ProjectsController and
\* ProjectRepository.updateMemberRole
\* ---------------------------------------------------------------------

\* an ObjectId made of a hex string: the digits are read whatever their
\* letter case, and toString() prints them in lower case
castObjectId(s) ==
  CASE s = "U1" -> "u1"
    [] s = "U2" -> "u2"
    [] OTHER -> s

\* the values of the :memberId path parameter
MemberIdParams == {"u1", "u2", "U1", "U2"}

\* ProjectRepository.getMemberRole
getMemberRole(project, userId) ==
  IF \E i \in 1..Len(project.members) : project.members[i].userId = userId
    THEN project.members[Min({i \in 1..Len(project.members) :
                                project.members[i].userId = userId})].role
    ELSE NONE

\* ProjectRepository.isMember
isMember(project, userId) ==
  \E i \in 1..Len(project.members) : project.members[i].userId = userId

\* ProjectRepository.addMember: $push
addMember(project, userId, role) ==
  [project EXCEPT !.members = Append(@, [userId |-> userId, role |-> role])]

\* ProjectRepository.removeMember: $pull of the members whose userId is the
\* given id cast to an ObjectId
removeMember(project, userId) ==
  [project EXCEPT !.members =
     SelectSeq(@, LAMBDA m : m.userId # castObjectId(userId))]

\* ProjectRepository.updateMemberRole: $set on the first member that matches
updateMemberRole(project, userId, role) ==
  IF isMember(project, castObjectId(userId))
    THEN [project EXCEPT
            !.members[Min({i \in 1..Len(project.members) :
                             project.members[i].userId = castObjectId(userId)})].role = role]
    ELSE project

MemberFrame ==
  UNCHANGED <<now, users, tokens, masterKey, envKeys, inMemoryStore, pc, req, ctx,
              upstream, usageRecords, issued, everRevoked, lastAuth,
              redis, rateLog, auditLogs, stream, outcome, response, deletion,
              adminSecretKey, usageOps, pipelines, creating, logins>>

\* ProjectsController.addMember by an authenticated user
AddMember ==
  /\ \E p \in ProjectIds, actor \in UserIds, newMember \in UserIds,
        role \in {"admin", "member", "owner"} :
       /\ users[actor].exists /\ users[newMember].exists
       /\ getMemberRole(projects[p], actor) \in {"owner", "admin"}
       /\ ~isMember(projects[p], newMember)
       /\ projects' = [projects EXCEPT ![p] =
                         addMember(@, newMember, IF role = "admin" THEN "admin" ELSE "member")]
  /\ MemberFrame

\* ProjectsController.removeMember by an authenticated user
RemoveMember ==
  /\ \E p \in ProjectIds, actor \in UserIds, memberId \in MemberIdParams :
       /\ users[actor].exists
       /\ getMemberRole(projects[p], actor) \in {"owner", "admin"}
       /\ projects[p].ownerId # memberId
       /\ projects' = [projects EXCEPT ![p] = removeMember(@, memberId)]
  /\ MemberFrame

\* a call of ProjectRepository.updateMemberRole
UpdateMemberRole ==
  /\ \E p \in ProjectIds, userId \in UserIds, role \in {"admin", "member"} :
       projects' = [projects EXCEPT ![p] = updateMemberRole(@, userId, role)]
  /\ MemberFrame

\* two users; every project as createProject leaves it
InitMembers ==
  /\ now = 0
  /\ users = [u \in UserIds |-> ActiveUser(IF u = "u1" THEN "f1" ELSE "f2")]
  /\ tokens = <<>>
  /\ projects = [p \in ProjectIds |-> NewProject("u1")]
  /\ masterKey = "k1"
  /\ envKeys = ProviderNames
  /\ inMemoryStore = EmptyMap
  /\ pc = "idle"
  /\ req = NoReq
  /\ ctx = NewCtx
  /\ upstream = <<>>
  /\ usageRecords = <<>>
  /\ issued = <<>>
  /\ everRevoked = {}
  /\ lastAuth = NoLastAuth
  /\ redis = NoRedis
  /\ rateLog = <<>>
  /\ auditLogs = <<>>
  /\ stream = NoStream
  /\ outcome = NONE
  /\ response = NoResponse
  /\ deletion = NoDeletion
  /\ adminSecretKey = NONE
  /\ usageOps = <<>>
  /\ pipelines = NoPipelines
  /\ creating = <<>>
  /\ logins = NoLogins

NextMembers ==
  \/ AddMember
  \/ RemoveMember
  \/ UpdateMemberRole

SpecMembers == InitMembers /\ [][NextMembers]_vars

\* C34: in every reachable state of a project its owner appears in members
\* with role owner, whatever addMember, removeMember and updateMemberRole
\* calls were made.
C34_OwnerStaysOwner ==
  \A p \in ProjectIds : getMemberRole(projects[p], projects[p].ownerId) = "owner"


\* ---------------------------------------------------------------------
\* Token names under concurrent createToken calls: the name check and the
\* insert are two database commands
\* ---------------------------------------------------------------------

\* createToken up to PatGenerator.isTokenNameUnique, which found the name free
CheckTokenName ==
  /\ Len(tokens) + Len(creating) < MaxTokens
  /\ users["u1"].exists
  /\ \E name \in {"ci", "dev"}, expiresInDays \in {0, 1} :
       /\ isTokenNameUnique(tokens, "u1", name)
       /\ creating' = Append(creating, [userId |-> "u1", name |-> name,
                                        expiresInDays |-> expiresInDays])
  /\ lastAuth' = NoLastAuth
  /\ response' = NoResponse
  /\ UNCHANGED <<now, users, tokens, projects, masterKey, envKeys, inMemoryStore, pc, req,
                 ctx, upstream, usageRecords, issued, everRevoked,
                 redis, rateLog, auditLogs, stream, outcome, deletion,
                 adminSecretKey, usageOps, pipelines, logins>>

\* createToken from PatGenerator.generateToken on: the insert and the answer
InsertToken ==
  /\ \E k \in 1..Len(creating) :
       /\ tokens' = generateToken(tokens, creating[k].userId, NONE, creating[k].name,
                                  {"api:read"}, creating[k].expiresInDays, now)
       /\ creating' = [j \in 1..(Len(creating) - 1) |->
                         IF j < k THEN creating[j] ELSE creating[j + 1]]
  /\ issued' = Append(issued, generateTokenString(Len(tokens) + 1).fullToken)
  /\ lastAuth' = NoLastAuth
  /\ response' = [op |-> "createToken", token |-> generateTokenString(Len(tokens) + 1).fullToken,
                  items |-> <<CreatedView(Len(tokens'), tokens'[Len(tokens')])>>]
  /\ UNCHANGED <<now, users, projects, masterKey, envKeys, inMemoryStore, pc, req,
                 ctx, upstream, usageRecords, everRevoked,
                 redis, rateLog, auditLogs, stream, outcome, deletion,
                 adminSecretKey, usageOps, pipelines, logins>>

\* rotateToken while no creation is pending
RotateWhenSettled ==
  /\ Len(tokens) + Len(creating) < MaxTokens
  /\ RotateToken

NextNames ==
  \/ CheckTokenName
  \/ InsertToken
  \/ RotateWhenSettled
  \/ RevokeToken
  \/ Tick

SpecNames == InitTokens /\ [][NextNames]_vars

SameUser(i, j) == i # j /\ tokens[i].userId = tokens[j].userId

\* C35: no two tokens of the same user have the same name, also after
\* concurrent createToken calls with one name and after rotateToken calls.
C35_TokenNamesUnique ==
  \A i, j \in 1..Len(tokens) : SameUser(i, j) => tokens[i].name # tokens[j].name

\* the same for the tokens that are not revoked
LiveTokenNamesUnique ==
  \A i, j \in 1..Len(tokens) :
    (SameUser(i, j) /\ ~tokens[i].isRevoked /\ ~tokens[j].isRevoked)
      => tokens[i].name # tokens[j].name


\* ---------------------------------------------------------------------
\* validateFirebaseToken as the database sees it: a find, an insert and an
\* update, with other requests' commands in between
\* ---------------------------------------------------------------------

LoginFrame ==
  UNCHANGED <<now, tokens, projects, masterKey, envKeys, inMemoryStore, pc, req,
              ctx, upstream, usageRecords, issued, everRevoked, lastAuth,
              redis, rateLog, auditLogs, stream, outcome, response, deletion,
              adminSecretKey, usageOps, pipelines, creating>>

\* validateFirebaseToken up to userRepository.findByFirebaseUid
VerifyAndFind ==
  /\ \E p \in Processes, token \in FirebaseStrings :
       /\ logins[p].pc = "idle"
       /\ LET uid == verifyIdToken(token)
              found == findByFirebaseUid(uid, users)
          IN
          logins' = [logins EXCEPT ![p] =
            IF uid = NONE
              THEN [pc |-> "done", uid |-> NONE, userId |-> NONE, status |-> NONE, ok |-> FALSE]
            ELSE IF found # {}
              THEN LET u == CHOOSE x \in found : TRUE IN
                   [pc |-> "update", uid |-> uid, userId |-> u,
                    status |-> users[u].status, ok |-> FALSE]
            ELSE [pc |-> "create", uid |-> uid, userId |-> NONE, status |-> NONE, ok |-> FALSE]]
  /\ UNCHANGED users
  /\ LoginFrame

\* userRepository.createUser: the unique index on firebaseUid makes the
\* insert of a second document with the uid throw, and the catch returns null
CreateUser ==
  /\ \E p \in Processes :
       /\ logins[p].pc = "create"
       /\ LET free == {u \in UserIds : ~users[u].exists} IN
          IF findByFirebaseUid(logins[p].uid, users) # {}
            THEN /\ logins' = [logins EXCEPT ![p].pc = "done", ![p].ok = FALSE]
                 /\ UNCHANGED users
            ELSE LET u == CHOOSE x \in free : TRUE IN
                 /\ users' = [users EXCEPT ![u] = ActiveUser(logins[p].uid)]
                 /\ logins' = [logins EXCEPT ![p].pc = "update", ![p].userId = u,
                                             ![p].status = "active"]
  /\ LoginFrame

\* userRepository.updateLastLogin and the AuthResult returned
UpdateLastLogin ==
  /\ \E p \in Processes :
       /\ logins[p].pc = "update"
       /\ users' = [users EXCEPT ![logins[p].userId].lastLoginAt = now]
       /\ logins' = [logins EXCEPT ![p].pc = "done", ![p].ok = TRUE]
  /\ LoginFrame

\* the request is over; the process takes the next one
ReturnAuthResult ==
  /\ \E p \in Processes :
       /\ logins[p].pc = "done"
       /\ logins' = [logins EXCEPT ![p] = NoLogin]
  /\ UNCHANGED users
  /\ LoginFrame

\* AdminController.updateUserStatus on an existing user
UpdateUserStatus ==
  /\ \E u \in UserIds, status \in {"active", "suspended", "deleted"} :
       /\ users[u].exists
       /\ users[u].status # status
       /\ users' = [users EXCEPT ![u].status = status]
  /\ UNCHANGED logins
  /\ LoginFrame

NextLogin ==
  \/ VerifyAndFind
  \/ CreateUser
  \/ UpdateLastLogin
  \/ ReturnAuthResult
  \/ UpdateUserStatus

\* u1 is known under the external uid f1; f2 has never been seen
SpecLogin == InitTokens /\ [][NextLogin]_vars

\* the calls that have returned for the external uid
ReturnedFor(uid) == {p \in Processes : logins[p].pc = "done" /\ logins[p].uid = uid}

\* C36: concurrent first-time requests carrying valid identity tokens of one
\* external uid create exactly one user, and every one of them is
\* authenticated as that user.
C36_OneUserAndAllAuthenticated ==
  \A uid \in {"f1", "f2"} :
    /\ Cardinality(findByFirebaseUid(uid, users)) <= 1
    /\ \A p \in ReturnedFor(uid) :
         /\ logins[p].ok
         /\ findByFirebaseUid(uid, users) = {logins[p].userId}

\* the part that holds: one external uid never has two user documents
OneUserPerUid ==
  \A uid \in {"f1", "f2"} : Cardinality(findByFirebaseUid(uid, users)) <= 1


\* the calls that returned an AuthResult
Authenticated == {p \in Processes : logins[p].pc = "done" /\ logins[p].ok}

\* C37: no request is authenticated as a user whose status is suspended or
\* deleted: the identity path rejects such a user as the PAT path does.
C37_OnlyActiveUsersAuthenticated ==
  \A p \in Authenticated : logins[p].status = "active"


\* header names that carry a provider credential, in lower case
CredentialHeaders == {"authorization", "x-api-key", "x-goog-api-key"}

\* the credential header names of an outbound headers object, without
\* regard to letter case
CredentialNamesOf(out) ==
  {ToLowerCase(h) : h \in {k \in DOMAIN out : ToLowerCase(k) \in CredentialHeaders}}

\* C38: the outbound request carries exactly one provider-credential header,
\* holding the resolved credential; an x-api-key or x-goog-api-key header of
\* the caller is never forwarded next to it or instead of it.
C38_OneCredentialHeader ==
  \A i \in 1..Len(upstream) :
    LET out == upstream[i].headers
        authHeader == getAuthorizationHeader(RegistryEntry.name, EnvKeyOf(RegistryEntry.name))
    IN
    /\ CredentialNamesOf(out) = {ToLowerCase(authHeader.header)}
    /\ authHeader.header \in DOMAIN out
    /\ out[authHeader.header] = authHeader.value

\* the part that holds: the header set by the handler holds the resolved
\* credential
ResolvedCredentialSent ==
  \A i \in 1..Len(upstream) :
    LET out == upstream[i].headers
        authHeader == getAuthorizationHeader(RegistryEntry.name, EnvKeyOf(RegistryEntry.name))
    IN authHeader.header \in DOMAIN out /\ out[authHeader.header] = authHeader.value


\* a token document can authenticate at time t (its owner being active)
UsableAt(tok, t) ==
  /\ ~tok.isRevoked
  /\ (tok.expiresAt = NoExpiry \/ t < tok.expiresAt)

\* the new token gives no access the old one did not give
NoExtension(old, new, t) ==
  /\ UsableAt(new, t) => UsableAt(old, t)
  /\ old.expiresAt # NoExpiry =>
       (new.expiresAt # NoExpiry /\ new.expiresAt <= old.expiresAt)

\* a step of rotateToken on token i
RotationOf(i) ==
  /\ response'.op = "rotateToken"
  /\ tokens' = rotateToken(tokens, i, now)

RotationKeepsAccess ==
  \A i \in 1..Len(tokens) :
    RotationOf(i) => NoExtension(tokens[i], tokens'[Len(tokens')], now)

\* C39: rotation never extends access: the new token is usable only if the
\* old one would have been (rotating a revoked or expired token yields no
\* usable token), and its expiry is never later than the old one's and never
\* absent when the old token had one.
C39_RotationNeverExtends == [][RotationKeepsAccess]_vars


\* ---------------------------------------------------------------------
\* QuotaChecker.resetQuota
\* ---------------------------------------------------------------------

\* the keys resetQuota puts into `updates`
resetQuotaUpdates(type) ==
  (IF type \in {"monthly", "both"}
     THEN {"usage.currentMonth.requests", "usage.currentMonth.tokens", "usage.currentMonth.cost"}
     ELSE {})
  \cup
  (IF type \in {"daily", "both"}
     THEN {"usage.currentDay.requests", "usage.currentDay.tokens", "usage.currentDay.cost"}
     ELSE {})

\* updateProject(projectId, {usage: updates}): $set of the path `usage` to an
\* object whose keys are not paths of the usage subdocument.  The documents
\* the store can hold afterwards: the usage subdocument replaced by the value
\* with its unknown keys dropped (every counter then reads as its default 0),
\* or, when the whole assignment is dropped, the document as it was.
resetQuota(project, type) ==
  IF resetQuotaUpdates(type) = {} THEN {project}
  ELSE {[project EXCEPT !.usage = ZeroUsage], project}

\* resetQuota(projectId, type) by an operator
ResetQuota ==
  /\ Len(usageOps) < MaxUsageOps
  /\ \E p \in ProjectIds, type \in {"daily", "monthly", "both"} :
       /\ \E after \in resetQuota(projects[p], type) :
            projects' = [projects EXCEPT ![p] = after]
       /\ usageOps' = Append(usageOps, [op |-> "resetQuota " \o type, projectId |-> p,
                                        requests |-> 0, tokens |-> 0])
  /\ UNCHANGED <<now, users, tokens, masterKey, envKeys, inMemoryStore, pc, req, ctx,
                 upstream, usageRecords, issued, everRevoked, lastAuth,
                 redis, rateLog, auditLogs, stream, outcome, response, deletion,
                 adminSecretKey, pipelines, creating, logins>>

NextReset ==
  \/ UpdateUsage
  \/ ResetQuota

SpecReset == InitTokens /\ [][NextReset]_vars

\* the step is resetQuota(p, type)
QuotaResetOf(p, type) ==
  usageOps' = Append(usageOps, [op |-> "resetQuota " \o type, projectId |-> p,
                                requests |-> 0, tokens |-> 0])

OthersUnchanged(p) == \A q \in ProjectIds \ {p} : projects'[q] = projects[q]

ResetsExactly(p, type) ==
  LET before == projects[p].usage
      after == projects'[p].usage
  IN
  /\ after.total = before.total
  /\ (type = "daily") =>
       (after.currentDay = ZeroBucket /\ after.currentMonth = before.currentMonth)
  /\ (type = "monthly") =>
       (after.currentMonth = ZeroBucket /\ after.currentDay = before.currentDay)
  /\ OthersUnchanged(p)

QuotaResetIsExact ==
  \A p \in ProjectIds, type \in {"daily", "monthly"} :
    QuotaResetOf(p, type) => ResetsExactly(p, type)

\* C40: resetQuota(projectId, 'daily') zeroes exactly the currentDay counters
\* of that project and leaves its total and currentMonth counters;
\* 'monthly' likewise for currentMonth; neither changes another project.
C40_ResetQuotaZeroesExactlyItsBucket == [][QuotaResetIsExact]_vars

\* the part that holds: no other project is changed
QuotaResetTouchesOneProject ==
  \A p \in ProjectIds, type \in {"daily", "monthly", "both"} :
    QuotaResetOf(p, type) => OthersUnchanged(p)

ResetQuotaLeavesOtherProjects == [][QuotaResetTouchesOneProject]_vars

=============================================================================
